---- MODULE Spec2Model ----
(***************************************************************************)
(* A model of Lib/ufoProcessor/ufoOperator.py: the UFOOperator wrapped     *)
(* around a designspace document, its module-level memoize cache, the      *)
(* source selection of collectSourcesForGlyph and the instance builders.   *)
(*                                                                         *)
(* Python values are modelled by records of one shape (PyObj), so that any *)
(* two of them can be compared.  A dict is the sequence of its             *)
(* <<key, value>> pairs in insertion order.  An optional value is None     *)
(* (the empty tuple) or Some(v).  A call returns a record                  *)
(* [cache, self, raised, value]: the memoize cache and the operator after  *)
(* the call, the name of the exception that escaped ("" when none did) and *)
(* the value returned.                                                     *)
(***************************************************************************)
EXTENDS Integers, Sequences, FiniteSets, TLC

VARIABLES
    ops,            \* owner -> the UFOOperator object (its attributes)
    memoizeCache,   \* _memoizeCache: key -> cached result
    last            \* the last call made: operation, owner, arguments, outcome

vars == <<ops, memoizeCache, last>>

(***************************************************************************)
(* Bounds of the model.                                                    *)
(***************************************************************************)
MaxSources == 3
MaxAxes == 3
MaxInstances == 1
MaxCache == 3
MaxBuildCache == 1
MaxLocation == 2
MaxGlyphsMade == 2

(***************************************************************************)
(* Python values.                                                          *)
(***************************************************************************)
None == <<>>
Some(v) == <<v>>
IsNone(o) == o = <<>>
The(o) == o[1]

PyNone == [t |-> "none", s |-> "", n |-> 0, items |-> <<>>]
PyStr(str) == [t |-> "str", s |-> str, n |-> 0, items |-> <<>>]
PyInt(num) == [t |-> "int", s |-> "", n |-> num, items |-> <<>>]
PyBool(b) == [t |-> "bool", s |-> "", n |-> IF b THEN 1 ELSE 0, items |-> <<>>]
PyTuple(elems) == [t |-> "tuple", s |-> "", n |-> 0, items |-> elems]
PyList(elems) == [t |-> "list", s |-> "", n |-> 0, items |-> elems]
PyDict(pairs) == [t |-> "dict", s |-> "", n |-> 0, items |-> pairs]

\* dict helpers: d is a sequence of <<key, value>> pairs with distinct keys
DictKeys(d) == {d[i][1] : i \in DOMAIN d}
DictHas(d, k) == \E i \in DOMAIN d : d[i][1] = k
DictGet(d, k) == d[CHOOSE i \in DOMAIN d : d[i][1] = k][2]
DictSet(d, k, v) ==
    IF DictHas(d, k)
    THEN [i \in DOMAIN d |-> IF d[i][1] = k THEN <<k, v>> ELSE d[i]]
    ELSE Append(d, <<k, v>>)
DictDel(d, k) == SelectSeq(d, LAMBDA p : p[1] # k)
\* Python's dict equality: the same items, in any order
DictEq(d, e) == {d[i] : i \in DOMAIN d} = {e[i] : i \in DOMAIN e}
\* a location (axis name -> value) as the Python object handed to immutify
LocObj(d) == PyDict([i \in DOMAIN d |-> <<PyStr(d[i][1]), d[i][2]>>])
OptLocObj(o) == IF IsNone(o) THEN PyNone ELSE LocObj(The(o))

RECURSIVE immutify(_), immutifyItems(_, _)
\* the loop bodies of immutify, from item i on
immutifyItems(obj, i) ==
    IF i > Len(obj.items) THEN <<>>
    ELSE IF obj.t = "dict"
    THEN <<obj.items[i][1], PyTuple(immutify(obj.items[i][2]))>> \o immutifyItems(obj, i + 1)
    ELSE immutify(obj.items[i]) \o immutifyItems(obj, i + 1)

immutify(obj) ==
    IF obj.t \in {"dict", "list"} THEN immutifyItems(obj, 1) ELSE <<obj>>

\* key = (function.__name__, self, immutableargs, immutify(kwargs))
MemoKey(fname, owner, args, kwargs) ==
    <<fname, owner, [i \in DOMAIN args |-> immutify(args[i])], immutify(PyDict(kwargs))>>

Ret(c, self, v) == [cache |-> c, self |-> self, raised |-> "", value |-> v]
Raise(c, self, exc) == [cache |-> c, self |-> self, raised |-> exc, value |-> None]

CachePut(c, key, v) == [k \in DOMAIN c \cup {key} |-> IF k = key THEN v ELSE c[k]]
CacheDrop(c, keys) == [k \in DOMAIN c \ keys |-> c[k]]

\* the wrapper of memoize: call is the outcome of function(self, *args, **kwargs)
memoize(c, self, key, call) ==
    IF key \in DOMAIN c
    THEN Ret(c, self, c[key])
    ELSE IF call.raised # "" THEN call
    ELSE [call EXCEPT !.cache = CachePut(call.cache, key, call.value)]

(***************************************************************************)
(* The designspace document and the source fonts.                          *)
(***************************************************************************)
Owners == {"X", "Y"}
GlyphNames == {"A", "B"}
DefaultLayerName == "foreground"

\* AxisDescriptor / DiscreteAxisDescriptor (the latter is the one with "values")
Axis(name, discrete, default, values) ==
    [name |-> name, discrete |-> discrete, default |-> PyInt(default),
     values |-> [i \in DOMAIN values |-> PyInt(values[i])]]
AxisWeight == Axis("weight", FALSE, 0, <<>>)
AxisStyle == Axis("style", TRUE, 0, <<0, 1>>)
AxisWidth == Axis("width", FALSE, 0, <<>>)
AxisPool == {AxisWeight, AxisStyle, AxisWidth}

Loc1(a, x) == << <<a, PyInt(x)>> >>
Loc2(a, x, b, y) == << <<a, PyInt(x)>>, <<b, PyInt(y)>> >>

\* SourceDescriptor
Source(name, location, layerName, muted) ==
    [name |-> name, path |-> name, location |-> location, layerName |-> layerName,
     mutedGlyphNames |-> muted, muteKerning |-> FALSE,
     copyInfo |-> FALSE, copyLib |-> FALSE, copyGroups |-> FALSE, copyFeatures |-> FALSE]

\* a glyph of a source font: emptiness as checkGlyphIsEmpty reports it
Glyph(name, empty, unicodes, components, width) ==
    [name |-> name, empty |-> empty, unicodes |-> unicodes,
     components |-> components, width |-> width]

\* InstanceDescriptor
Instance(name, location, path, kerning) ==
    [name |-> name, location |-> location, path |-> path, kerning |-> kerning]

\* a designspace document
Doc(axes, sources, instances) == [axes |-> axes, sources |-> sources, instances |-> instances]

\* __init__: the operator wrapped around a document, no font loaded; glyphNames,
\* _infoMutator and _kerningMutator are attributes only later calls set
NewOperator(doc, useVarlib, debug) ==
    [doc |-> doc, fonts |-> <<>>, fontsLoaded |-> FALSE, glyphNames |-> None,
     ufoVersion |-> 3, useVarlib |-> useVarlib, roundGeometry |-> FALSE,
     mutedAxisNames |-> None, debug |-> debug, logger |-> debug,
     infoMutator |-> None, kerningMutator |-> None, kerningMutatorPairs |-> None]

\* self.logger.info(note): the logger exists only when debug was set
LoggerInfo(self) == IF self.logger THEN "" ELSE "AttributeError"

getOrderedDiscreteAxes(self) == SelectSeq(self.doc.axes, LAMBDA a : a.discrete)
getOrderedContinuousAxes(self) == SelectSeq(self.doc.axes, LAMBDA a : ~a.discrete)
SeqRange(q) == {q[i] : i \in DOMAIN q}

\* splitLocation that hands back an empty discrete part instead of None
splitLocationNeverNull(self, location) ==
    LET discreteAxes == {a.name : a \in SeqRange(getOrderedDiscreteAxes(self))}
        continuous == SelectSeq(location, LAMBDA p : p[1] \notin discreteAxes)
        discrete == SelectSeq(location, LAMBDA p : p[1] \in discreteAxes)
    IN  <<continuous, Some(discrete)>>

\* splitLocation: <<continuous, discrete or None>>
splitLocation(self, location) ==
    LET discreteAxes == {a.name : a \in SeqRange(getOrderedDiscreteAxes(self))}
        continuous == SelectSeq(location, LAMBDA p : p[1] \notin discreteAxes)
        discrete == SelectSeq(location, LAMBDA p : p[1] \in discreteAxes)
    IN  IF discrete = <<>> THEN <<continuous, None>> ELSE <<continuous, Some(discrete)>>

RECURSIVE findOk(_, _, _, _)
\* the inner loop of findSourceDescriptorsForDiscreteLocation over discreteLocDict.items()
findOk(s, d, i, ok) ==
    IF i > Len(d) THEN ok
    ELSE IF DictHas(s.location, d[i][1])
    THEN findOk(s, d, i + 1, IF DictGet(s.location, d[i][1]) # d[i][2] THEN FALSE ELSE ok)
    ELSE findOk(s, d, i + 1, FALSE)

findSourcesBody(self, discreteLocDict) ==
    IF IsNone(discreteLocDict) THEN self.doc.sources
    ELSE SelectSeq(self.doc.sources, LAMBDA s : findOk(s, The(discreteLocDict), 1, TRUE))

findSourceDescriptorsForDiscreteLocation(c, self, owner, discreteLocDict) ==
    memoize(c, self,
            MemoKey("findSourceDescriptorsForDiscreteLocation", owner,
                    <<OptLocObj(discreteLocDict)>>, <<>>),
            Ret(c, self, findSourcesBody(self, discreteLocDict)))

\* axisDescriptor.map_forward: the axes of the model declare no map
map_forward(axis, value) == value

newDefaultLocationBody(self, bend, discreteLocation) ==
    [i \in DOMAIN self.doc.axes |->
        LET a == self.doc.axes[i]
            axisValue == IF ~IsNone(discreteLocation) /\ DictHas(The(discreteLocation), a.name)
                         THEN DictGet(The(discreteLocation), a.name)
                         ELSE a.default
        IN  <<a.name, IF bend THEN map_forward(a, axisValue) ELSE axisValue>>]

\* newDefaultLocation(bend=..., discreteLocation=...), both given by keyword
newDefaultLocation(c, self, owner, bend, discreteLocation) ==
    memoize(c, self,
            MemoKey("newDefaultLocation", owner, <<>>,
                    << <<PyStr("bend"), PyBool(bend)>>,
                       <<PyStr("discreteLocation"), OptLocObj(discreteLocation)>> >>),
            Ret(c, self, newDefaultLocationBody(self, bend, discreteLocation)))

\* changed with the owner test left out (_memoizeCache.clear())
changedClearsAll(c, owner) == CacheDrop(c, DOMAIN c)

\* changed: drop every entry of this owner
changed(c, owner) == CacheDrop(c, {k \in DOMAIN c : k[2] = owner})

\* glyphChanged: drop the glyph-scoped entries whose first positional argument is glyphName
glyphChanged(c, owner, glyphName) ==
    CacheDrop(c, {k \in DOMAIN c :
                    /\ k[1] \in {"getGlyphMutator", "collectSourcesForGlyph"}
                    /\ k[3][1][1] = PyStr(glyphName)})

(***************************************************************************)
(* The source files on disk.  A font holds its layers: layer name -> glyph *)
(* name -> glyph; "glyphName in f" looks in the default layer.             *)
(***************************************************************************)
GlyphsOf(set, emptyOnes, composites) ==
    [g \in set |-> Glyph(g, g \in emptyOnes, {IF g = "A" THEN 65 ELSE 66},
                         IF g \in composites THEN <<"A">> ELSE <<>>, 500)]

\* font.info, of which the model keeps the four proportions
Info(unitsPerEm, ascender, descender, xHeight) ==
    [unitsPerEm |-> unitsPerEm, ascender |-> ascender, descender |-> descender,
     xHeight |-> xHeight]
KernPair == <<"A", "B">>

Font(path, foreground, emptyOnes, sparse) ==
    [path |-> path, ident |-> <<"disk", path>>,
     info |-> Info(1000, IF path = "d" THEN 700 ELSE 800, -200, 500),
     kerning |-> IF path = "m1" THEN <<>> ELSE << <<KernPair, -10>> >>,
     groups |-> <<>>, lib |-> <<>>, features |-> path,
     layers |-> IF sparse = {}
                THEN [l \in {DefaultLayerName} |->
                        GlyphsOf(foreground, emptyOnes, IF path = "m2" THEN {"B"} ELSE {})]
                ELSE [l \in {DefaultLayerName, "sparse"} |->
                        IF l = "sparse" THEN GlyphsOf(sparse, {}, {})
                        ELSE GlyphsOf(foreground, emptyOnes, {})]]

\* os.path.exists(path), and the font _instantiateFont(path) reads
Disk == {"d", "m1", "m2", "s1", "w"}
DiskFont(path) ==
    CASE path = "d"  -> Font("d", {"A", "B"}, {"B"}, {"A"})
      [] path = "m1" -> Font("m1", {"A", "B"}, {"A"}, {})
      [] path = "m2" -> Font("m2", {"A", "B"}, {}, {})
      [] path = "s1" -> Font("s1", {"A"}, {}, {"B"})
      [] OTHER       -> Font(path, {"A"}, {}, {})

\* the source descriptors the documents of the model are made of
SrcD == Source("d", Loc2("weight", 0, "style", 0), None, {})
SrcM1 == Source("m1", Loc2("weight", 2, "style", 0), None, {})
SrcM2 == Source("m2", Loc2("weight", 1, "style", 0), None, {})
SrcS1 == Source("s1", Loc2("style", 1, "weight", 0), None, {})
SrcMu == [Source("mu", Loc2("weight", 2, "style", 0), None, {"A"}) EXCEPT !.path = "m2"]
SrcL == [Source("l", Loc2("weight", 1, "style", 0), Some("sparse"), {}) EXCEPT !.path = "d"]
SrcK == [Source("k", Loc2("weight", 1, "style", 0), Some("sparse"), {}) EXCEPT !.path = "s1"]
SrcX == Source("x", Loc2("weight", 2, "style", 1), None, {})
SrcW == Source("w", Loc1("weight", 1), None, {})
SourcePool == {SrcD, SrcM1, SrcM2, SrcS1, SrcMu, SrcL, SrcX, SrcW}

\* self.fonts is a dict: source name -> font, or None for a missing file
fontsGet(self, name) == IF DictHas(self.fonts, name) THEN DictGet(self.fonts, name) ELSE None
getDefaultLayerName(f) == DefaultLayerName
InFont(glyphName, f) == glyphName \in DOMAIN f.layers[DefaultLayerName]
\* getLayer(f, layerName): the named layer of the font, None when it has none
getLayer(f, layerName) ==
    IF layerName \in DOMAIN f.layers THEN Some(f.layers[layerName]) ELSE None

\* isLocalDefault: [raised, value]
isLocalDefault(self, location) ==
    LET declared == {a.name : a \in SeqRange(self.doc.axes)}
        default(n) == (CHOOSE a \in SeqRange(self.doc.axes) : a.name = n).default
        stops == {i \in DOMAIN location :
                    \/ location[i][1] \notin declared
                    \/ default(location[i][1]) # location[i][2]}
        first == CHOOSE i \in stops : \A j \in stops : i <= j
    IN  IF stops = {} THEN [raised |-> "", value |-> TRUE]
        ELSE IF location[first][1] \notin declared
        THEN [raised |-> "KeyError", value |-> FALSE]
        ELSE [raised |-> "", value |-> FALSE]

RECURSIVE filterLoop(_, _, _, _, _)
\* the loop of filterThisLocation over mutedAxes, from index i on
filterLoop(self, location, mutedAxes, i, acc) ==
    IF i > Len(mutedAxes) THEN acc
    ELSE LET m == mutedAxes[i]
             declared == \E a \in SeqRange(self.doc.axes) : a.name = m
             default == (CHOOSE a \in SeqRange(self.doc.axes) : a.name = m).default
         IN  IF ~DictHas(location, m) \/ ~declared
             THEN filterLoop(self, location, mutedAxes, i + 1, acc)
             ELSE filterLoop(self, location, mutedAxes, i + 1,
                             <<acc[1] \/ DictGet(location, m) # default, DictDel(acc[2], m)>>)

\* filterThisLocation: <<ignoreSource, location without the muted axes>>
filterThisLocation(self, location, mutedAxes) ==
    IF IsNone(mutedAxes) \/ The(mutedAxes) = <<>> THEN <<FALSE, location>>
    ELSE filterLoop(self, location, The(mutedAxes), 1, <<FALSE, location>>)

(***************************************************************************)
(* collectSourcesForGlyph.                                                 *)
(***************************************************************************)
\* processThis.toMathGlyph() / mathGlyphClass(processThis), of the glyph or of
\* its decomposed copy
MathGlyphOf(g, decomposeComponents) ==
    [name |-> g.name, empty |-> g.empty, width |-> g.width,
     components |-> IF decomposeComponents THEN <<>> ELSE g.components,
     decomposed |-> decomposeComponents]

CollectStart == [items |-> <<>>, empties |-> <<>>, foundEmpty |-> FALSE,
                 unicodes |-> {}, raised |-> ""]

\* one pass of the loop over the sources: acc after sourceDescriptor sd
collectStep(self, glyphName, decomposeComponents, sd, acc) ==
    LET isDefault == isLocalDefault(self, sd.location)
        filtered == filterThisLocation(self, sd.location, self.mutedAxisNames)
        f == fontsGet(self, sd.name)
        layer == IF IsNone(sd.layerName)
                 THEN Some(The(f).layers[DefaultLayerName])
                 ELSE getLayer(The(f), The(sd.layerName))
        layerName == IF IsNone(sd.layerName) THEN getDefaultLayerName(The(f))
                     ELSE The(sd.layerName)
        g == The(layer)[glyphName]
        foundEmpty == acc.foundEmpty \/ g.empty
        sourceInfo == [source |-> The(f).path, glyphName |-> glyphName,
                       layerName |-> layerName, location |-> filtered[2],
                       sourceName |-> sd.name]
        item == [location |-> splitLocation(self, sd.location)[1],
                 glyph |-> MathGlyphOf(g, decomposeComponents),
                 sourceInfo |-> sourceInfo]
    IN  IF sd.path \notin Disk THEN acc
        ELSE IF glyphName \in sd.mutedGlyphNames
        THEN [acc EXCEPT !.raised = LoggerInfo(self)]
        ELSE IF isDefault.raised # "" THEN [acc EXCEPT !.raised = isDefault.raised]
        ELSE IF filtered[1] THEN acc
        ELSE IF IsNone(f) THEN acc
        ELSE IF ~InFont(glyphName, The(f)) THEN acc
        ELSE IF IsNone(layer) THEN acc
        ELSE IF glyphName \notin DOMAIN The(layer) THEN acc
        ELSE [acc EXCEPT !.items = Append(@, item),
                         !.empties = Append(@, <<isDefault.value, foundEmpty>>),
                         !.foundEmpty = foundEmpty,
                         !.unicodes = @ \cup g.unicodes]

RECURSIVE collectLoop(_, _, _, _, _, _)
collectLoop(self, glyphName, decomposeComponents, sources, i, acc) ==
    IF i > Len(sources) \/ acc.raised # "" THEN acc
    ELSE collectLoop(self, glyphName, decomposeComponents, sources, i + 1,
                     collectStep(self, glyphName, decomposeComponents, sources[i], acc))

\* the check of the empties after the loop: the items that are kept
checkedItems(items, empties) ==
    LET emptiesAllowed == \E i \in DOMAIN empties : empties[i][1] /\ empties[i][2]
        keep == {i \in DOMAIN items : empties[i][2] = emptiesAllowed}
        F[i \in 0..Len(items)] ==
            IF i = 0 THEN <<>>
            ELSE IF i \in keep THEN Append(F[i - 1], items[i]) ELSE F[i - 1]
    IN  F[Len(items)]

collectSourcesBody(c, self, owner, glyphName, decomposeComponents, discreteLocation) ==
    LET looped(r2, acc) ==
            IF acc.raised # "" THEN Raise(r2.cache, self, acc.raised)
            ELSE Ret(r2.cache, self, <<checkedItems(acc.items, acc.empties), acc.unicodes>>)
        found(r2) ==
            looped(r2, collectLoop(self, glyphName, decomposeComponents, r2.value, 1,
                                   CollectStart))
        located(r1) ==
            found(IF ~IsNone(discreteLocation)
                  THEN findSourceDescriptorsForDiscreteLocation(r1.cache, self, owner,
                                                                discreteLocation)
                  ELSE Ret(r1.cache, self, self.doc.sources))
    IN  located(newDefaultLocation(c, self, owner, TRUE, discreteLocation))

\* collectSourcesForGlyph(glyphName, decomposeComponents=..., discreteLocation=...)
collectSourcesForGlyph(c, self, owner, glyphName, decomposeComponents, discreteLocation) ==
    memoize(c, self,
            MemoKey("collectSourcesForGlyph", owner, <<PyStr(glyphName)>>,
                    << <<PyStr("decomposeComponents"), PyBool(decomposeComponents)>>,
                       <<PyStr("discreteLocation"), OptLocObj(discreteLocation)>> >>),
            collectSourcesBody(c, self, owner, glyphName, decomposeComponents, discreteLocation))

(***************************************************************************)
(* The interpolation engines.  They are external: what a call of an engine *)
(* does is an input of the model.  A fault names the one engine or font    *)
(* call that fails during an operation, and the exception it raises.       *)
(***************************************************************************)
NoFault == [stage |-> "", subject |-> "", exc |-> ""]
Fault(stage, subject, exc) == [stage |-> stage, subject |-> subject, exc |-> exc]
FaultAt(fault, stage, subject) ==
    IF fault.stage = stage /\ fault.subject = subject THEN fault.exc ELSE ""

\* the exceptions a failing engine call raises in the model
BuildExceptions == {"TypeError", "KeyError", "AssertionError", "ValueError"}
InstanceExceptions == {"IndexError", "KeyError", "ValueError"}

\* VariationModelMutator(items, ...) / buildMutator(items, ...): the mutator
Mutator(engine, subject, items, bias) ==
    [engine |-> engine, subject |-> subject, items |-> items, bias |-> bias]

\* getVariationModel(items, axes, bias): [raised, value], value = <<bias, mutator or None>>
getVariationModel(self, subject, items, bias, fault) ==
    LET exc == FaultAt(fault, "build", subject)
    IN  IF self.useVarlib
        THEN IF exc = ""
             THEN [raised |-> "", value |-> <<<<>>, Some(Mutator("varlib", subject, items, <<>>))>>]
             ELSE IF exc = "TypeError" THEN [raised |-> "", value |-> <<<<>>, None>>]
             ELSE IF exc \in {"KeyError", "AssertionError"}
             THEN [raised |-> "", value |-> <<<<>>, None>>]
             ELSE [raised |-> exc, value |-> None]
        ELSE LET biasForMutator == splitLocation(self, bias)[1]
             IN  IF exc = ""
                 THEN [raised |-> "",
                       value |-> <<biasForMutator,
                                   Some(Mutator("mutatorMath", subject, items, biasForMutator))>>]
                 ELSE [raised |-> exc, value |-> None]

\* getGlyphMutator(glyphName, [decomposeComponents=...,] discreteLocation=...);
\* dcGiven is None when decomposeComponents is left to its default
getGlyphMutatorBody(c, self, owner, glyphName, dcGiven, discreteLocation, fault) ==
    LET decomposeComponents == IF IsNone(dcGiven) THEN FALSE ELSE The(dcGiven)
        kwargs == Some(<< <<"discreteLocation", OptLocObj(discreteLocation)>> >>)
        built(r1, r2) ==
            LET new == [i \in DOMAIN r1.value[1] |->
                          <<r1.value[1][i].location, r1.value[1][i].glyph>>]
                m == getVariationModel(self, glyphName, new, r2.value, fault)
                thing == IF m.raised # "" THEN None ELSE m.value[2]
            IN  Ret(r2.cache, self, <<thing, r1.value[2]>>)
        collected(r1) ==
            IF r1.raised # "" THEN r1
            ELSE built(r1, newDefaultLocation(r1.cache, self, owner, TRUE, kwargs))
    IN  collected(collectSourcesForGlyph(c, self, owner, glyphName, decomposeComponents,
                                         discreteLocation))

getGlyphMutator(c, self, owner, glyphName, dcGiven, discreteLocation, fault) ==
    memoize(c, self,
            MemoKey("getGlyphMutator", owner, <<PyStr(glyphName)>>,
                    (IF IsNone(dcGiven) THEN <<>>
                     ELSE << <<PyStr("decomposeComponents"), PyBool(The(dcGiven))>> >>)
                    \o << <<PyStr("discreteLocation"), OptLocObj(discreteLocation)>> >>),
            getGlyphMutatorBody(c, self, owner, glyphName, dcGiven, discreteLocation, fault))

(***************************************************************************)
(* Info and kerning mutators.                                              *)
(***************************************************************************)
\* self.fonts[name]: [raised, value]
fontsItem(self, name) ==
    IF DictHas(self.fonts, name) THEN [raised |-> "", value |-> DictGet(self.fonts, name)]
    ELSE [raised |-> "KeyError", value |-> None]

\* checkDiscreteAxisValues(location): [raised, value]; location is None when
\* splitLocation found no discrete axis in it
checkDiscreteAxisValues(self, location) ==
    LET axes == getOrderedDiscreteAxes(self)
    IN  IF axes = <<>> THEN [raised |-> "", value |-> TRUE]
        ELSE IF IsNone(location) THEN [raised |-> "AttributeError", value |-> FALSE]
        ELSE [raised |-> "",
              value |-> \A i \in DOMAIN axes :
                          /\ DictHas(The(location), axes[i].name)
                          /\ DictGet(The(location), axes[i].name) \in SeqRange(axes[i].values)]

isAnisotropic(c, self, owner, location) ==
    memoize(c, self, MemoKey("isAnisotropic", owner, <<LocObj(location)>>, <<>>),
            Ret(c, self, \E i \in DOMAIN location : location[i][2].t \in {"list", "tuple"}))

\* the loop of splitAnisotropic: val[0] and val[1] of a tuple, val of anything else
splitAnisotropicBody(location) ==
    << [i \in DOMAIN location |->
          <<location[i][1], IF location[i][2].t = "tuple" THEN location[i][2].items[1]
                            ELSE location[i][2]>>],
       [i \in DOMAIN location |->
          <<location[i][1], IF location[i][2].t = "tuple" THEN location[i][2].items[2]
                            ELSE location[i][2]>>] >>

splitAnisotropic(c, self, owner, location) ==
    memoize(c, self, MemoKey("splitAnisotropic", owner, <<LocObj(location)>>, <<>>),
            IF \E i \in DOMAIN location :
                 location[i][2].t = "tuple" /\ Len(location[i][2].items) < 2
            THEN Raise(c, self, "IndexError")
            ELSE Ret(c, self, splitAnisotropicBody(location)))

RECURSIVE infoLoop(_, _, _, _)
\* the loop of getInfoMutator over the sources: [items, raised] from source i on
infoLoop(self, sources, i, acc) ==
    IF i > Len(sources) \/ acc.raised # "" THEN acc
    ELSE LET sd == sources[i]
             f == fontsItem(self, sd.name)
             item == <<splitLocation(self, sd.location)[1], The(f.value).info>>
         IN  IF ~IsNone(sd.layerName) THEN infoLoop(self, sources, i + 1, acc)
             ELSE IF f.raised # "" THEN [acc EXCEPT !.raised = f.raised]
             ELSE IF IsNone(f.value) THEN infoLoop(self, sources, i + 1, acc)
             ELSE infoLoop(self, sources, i + 1, [acc EXCEPT !.items = Append(@, item)])

getInfoMutatorBody(c, self, owner, discreteLocation, fault) ==
    LET built(r2, m) ==
            IF m.raised # "" THEN Raise(r2.cache, self, m.raised)
            ELSE Ret(r2.cache, [self EXCEPT !.infoMutator = Some(m.value[2])], m.value[2])
        biased(acc, r2) ==
            built(r2, getVariationModel(self, "info", acc.items, r2.value, fault))
        looped(r1, acc) ==
            IF acc.raised # "" THEN Raise(r1.cache, self, acc.raised)
            ELSE biased(acc, newDefaultLocation(r1.cache, self, owner, TRUE, discreteLocation))
        found(r1) == looped(r1, infoLoop(self, r1.value, 1, [items |-> <<>>, raised |-> ""]))
    IN  found(IF ~IsNone(discreteLocation)
              THEN findSourceDescriptorsForDiscreteLocation(c, self, owner, discreteLocation)
              ELSE Ret(c, self, self.doc.sources))

\* getInfoMutator(discreteLocation=...)
getInfoMutator(c, self, owner, discreteLocation, fault) ==
    memoize(c, self,
            MemoKey("getInfoMutator", owner, <<>>,
                    << <<PyStr("discreteLocation"), OptLocObj(discreteLocation)>> >>),
            getInfoMutatorBody(c, self, owner, discreteLocation, fault))

\* collectForegroundLayerNames: None, 'foreground' and the fonts' default layers
collectForegroundLayerNames(self) ==
    {None, Some("foreground")}
        \cup {Some(getDefaultLayerName(The(self.fonts[i][2]))) :
                i \in {j \in DOMAIN self.fonts : ~IsNone(self.fonts[j][2])}}

\* mathKerningClass(kerning, groups)
MathKerning(kerning, groups) == [kerning |-> kerning, groups |-> groups]
\* the sparse kerning of the given pairs, in the order of pairs
sparseKerning(kerning, pairs) ==
    LET have == SelectSeq(pairs, LAMBDA pr : DictHas(kerning, pr))
    IN  [i \in DOMAIN have |-> <<have[i], DictGet(kerning, have[i])>>]

RECURSIVE kerningLoop(_, _, _, _, _)
\* the loops of getKerningMutator over the sources, without and with pairs
kerningLoop(self, sources, pairs, i, acc) ==
    IF i > Len(sources) \/ acc.raised # "" THEN acc
    ELSE LET sd == sources[i]
             f == fontsItem(self, sd.name)
             loc == splitLocation(self, sd.location)[1]
             whole == <<loc, MathKerning(The(f.value).kerning, The(f.value).groups)>>
             sparse == <<loc, MathKerning(sparseKerning(The(f.value).kerning, The(pairs)), <<>>)>>
             skip == IF IsNone(pairs)
                     THEN sd.layerName \notin collectForegroundLayerNames(self) \/ sd.muteKerning
                     ELSE ~IsNone(sd.layerName) \/ sd.path \notin Disk \/ sd.muteKerning
         IN  IF skip THEN kerningLoop(self, sources, pairs, i + 1, acc)
             ELSE IF f.raised # "" THEN [acc EXCEPT !.raised = f.raised]
             ELSE IF IsNone(f.value) THEN kerningLoop(self, sources, pairs, i + 1, acc)
             ELSE kerningLoop(self, sources, pairs, i + 1,
                              [acc EXCEPT !.items = Append(@, IF IsNone(pairs) THEN whole
                                                              ELSE sparse)])

getKerningMutatorBody(c, self, owner, pairs, discreteLocation, fault) ==
    LET self1 == IF IsNone(pairs) THEN self ELSE [self EXCEPT !.kerningMutatorPairs = pairs]
        built(r2, thing, m) ==
            IF thing.raised # "" THEN Raise(r2.cache, self1, thing.raised)
            ELSE IF m.raised # "" THEN Raise(r2.cache, self1, m.raised)
            ELSE Ret(r2.cache, [self1 EXCEPT !.kerningMutator = Some(m.value[2])], m.value[2])
        biased(acc, r2) ==
            built(r2, getVariationModel(self, "kerning", acc.items, r2.value, fault),
                  getVariationModel(self, "kerning", acc.items, r2.value, fault))
        looped(r1, acc) ==
            IF acc.raised # "" THEN Raise(r1.cache, self1, acc.raised)
            ELSE biased(acc, newDefaultLocation(r1.cache, self, owner, TRUE, discreteLocation))
        found(r1) ==
            looped(r1, kerningLoop(self, r1.value, pairs, 1, [items |-> <<>>, raised |-> ""]))
    IN  found(IF ~IsNone(discreteLocation)
              THEN findSourceDescriptorsForDiscreteLocation(c, self, owner, discreteLocation)
              ELSE Ret(c, self, self.doc.sources))

\* the list of pairs as the Python object handed to immutify
PairsObj(pairs) ==
    PyList([i \in DOMAIN pairs |-> PyTuple(<<PyStr(pairs[i][1]), PyStr(pairs[i][2])>>)])

\* getKerningMutator([pairs=...,] discreteLocation=...); pairs is None when left out
getKerningMutator(c, self, owner, pairs, discreteLocation, fault) ==
    memoize(c, self,
            MemoKey("getKerningMutator", owner, <<>>,
                    (IF IsNone(pairs) THEN <<>>
                     ELSE << <<PyStr("pairs"), PairsObj(The(pairs))>> >>)
                    \o << <<PyStr("discreteLocation"), OptLocObj(discreteLocation)>> >>),
            getKerningMutatorBody(c, self, owner, pairs, discreteLocation, fault))

(***************************************************************************)
(* Instances.  An interpolated object carries its value as a horizontal    *)
(* and a vertical component.                                               *)
(***************************************************************************)
RECURSIVE LocSum(_, _)
\* the scalar axis values of a location, added up
LocSum(loc, i) ==
    IF i > Len(loc) THEN 0
    ELSE (IF loc[i][2].t = "int" THEN loc[i][2].n ELSE 0) + LocSum(loc, i + 1)

\* mutator.makeInstance(loc, bend=bend): the object interpolated at loc
MathInstance(m, loc) ==
    LET x == 100 * Len(m.items) + LocSum(loc, 1)
    IN  [subject |-> m.subject, engine |-> m.engine, h |-> x, v |-> x,
         rounded |-> FALSE, unicodes |-> {}]
\* factor * object, object + object, object.round()
Scale(factor, obj) == [obj EXCEPT !.h = factor[1] * @, !.v = factor[2] * @]
Plus(a, b) == [a EXCEPT !.h = @ + b.h, !.v = @ + b.v]
\* the merge with the two factors exchanged
MergeExchanged(horizontal, vertical) == Plus(Scale(<<0, 1>>, horizontal), Scale(<<1, 0>>, vertical))
Merge(horizontal, vertical) == Plus(Scale(<<1, 0>>, horizontal), Scale(<<0, 1>>, vertical))
Round(obj) == [obj EXCEPT !.rounded = TRUE]

\* the font _instantiateFont(None) makes
NewFont == [info |-> None, names |-> "", kerning |-> None, infoFrom |-> None,
            lib |-> <<>>, groups |-> <<>>, features |-> "", glyphOrder |-> None,
            glyphs |-> <<>>]

\* the kerning part of makeInstance: [cache, self, raised, value], value the
\* kerning instance extracted into the font, or None
instanceKerning(c, self, owner, inst, pairs, discreteLocation, locHorizontal, fault) ==
    LET given == ~IsNone(pairs) /\ The(pairs) # <<>>
        exc == FaultAt(fault, "instance", "kerning")
        made(r) ==
            IF given
            THEN IF r.raised # "" \/ IsNone(r.value) \/ exc # ""
                 THEN Ret(r.cache, r.self, None)
                 ELSE Ret(r.cache, r.self, Some(MathInstance(The(r.value), locHorizontal)))
            ELSE IF r.raised # "" THEN r
            ELSE IF IsNone(r.value) THEN Ret(r.cache, r.self, None)
            ELSE IF exc # "" THEN Raise(r.cache, r.self, exc)
            ELSE Ret(r.cache, r.self, Some(MathInstance(The(r.value), locHorizontal)))
    IN  IF ~inst.kerning THEN Ret(c, self, None)
        ELSE made(getKerningMutator(c, self, owner, IF given THEN pairs ELSE None,
                                    discreteLocation, fault))

\* the info part of makeInstance: [cache, self, raised, value]
instanceInfo(c, self, owner, discreteLocation, anisotropic, loc, locHorizontal, locVertical, fault) ==
    LET exc == FaultAt(fault, "instance", "info")
        excRound == IF self.roundGeometry THEN FaultAt(fault, "round", "info") ELSE ""
        made(r) ==
            LET obj == IF ~anisotropic THEN MathInstance(The(r.value), loc)
                       ELSE Merge(MathInstance(The(r.value), locHorizontal),
                                  MathInstance(The(r.value), locVertical))
            IN  IF r.raised # "" THEN r
                ELSE IF IsNone(r.value) THEN Ret(r.cache, r.self, None)
                ELSE IF exc # "" THEN Raise(r.cache, r.self, exc)
                ELSE IF excRound # "" THEN Raise(r.cache, r.self, excRound)
                ELSE Ret(r.cache, r.self, Some(IF self.roundGeometry THEN Round(obj) ELSE obj))
    IN  made(getInfoMutator(c, self, owner, discreteLocation, fault))

RECURSIVE copyLoop(_, _, _, _)
\* the loop of makeInstance over the sources that copies info, lib, groups, features
copyLoop(self, sources, i, acc) ==
    IF i > Len(sources) \/ acc.raised # "" THEN acc
    ELSE LET sd == sources[i]
             f == fontsItem(self, sd.name)
             font == acc.font
             font1 == IF sd.copyInfo THEN [font EXCEPT !.infoFrom = Some(sd.name)] ELSE font
             font2 == IF sd.copyLib THEN [font1 EXCEPT !.lib = @ \o The(f.value).lib]
                      ELSE font1
             font3 == IF sd.copyGroups THEN [font2 EXCEPT !.groups = @ \o The(f.value).groups]
                      ELSE font2
             font4 == IF sd.copyFeatures THEN [font3 EXCEPT !.features = The(f.value).features]
                      ELSE font3
         IN  IF ~(sd.copyInfo \/ sd.copyLib \/ sd.copyGroups \/ sd.copyFeatures)
             THEN copyLoop(self, sources, i + 1, acc)
             ELSE IF f.raised # "" THEN [acc EXCEPT !.raised = f.raised]
             ELSE IF IsNone(f.value) THEN copyLoop(self, sources, i + 1, acc)
             ELSE copyLoop(self, sources, i + 1, [acc EXCEPT !.font = font4])

\* a glyph of the output font: made by font.newGlyph, then written
GlyphSlot(unicodes) == [unicodes |-> unicodes, value |-> None, width |-> None]

\* one pass of the loop of makeInstance over the selected glyph names
instanceGlyph(st, self, owner, glyphName, continuousLocation, discreteLocation, locHorizontal, locVertical, fault) ==
    LET exc == FaultAt(fault, "instance", glyphName)
        excRound == IF self.roundGeometry THEN FaultAt(fault, "round", glyphName) ELSE ""
        excWrite == FaultAt(fault, "write", glyphName)
        write(r1, r2) ==
            LET glyphMutator == The(r1.value[1])
                obj == IF ~r2.value THEN MathInstance(glyphMutator, continuousLocation)
                       ELSE Merge(MathInstance(glyphMutator, locHorizontal),
                                  MathInstance(glyphMutator, locVertical))
                rounded == IF self.roundGeometry /\ excRound = "" THEN Round(obj) ELSE obj
                slot == GlyphSlot(r1.value[2])
                made == [st EXCEPT !.cache = r2.cache,
                                   !.font.glyphs = DictSet(@, glyphName, slot)]
                written == [slot EXCEPT !.value = Some(rounded), !.width = Some(rounded.h)]
            IN  IF exc = "IndexError" THEN made
                ELSE IF exc # "" THEN [made EXCEPT !.raised = exc]
                ELSE IF excRound \notin {"", "AttributeError"}
                THEN [made EXCEPT !.raised = excRound]
                ELSE IF excWrite \notin {"", "TypeError"}
                THEN [made EXCEPT !.raised = excWrite]
                ELSE [made EXCEPT !.font.glyphs = DictSet(@, glyphName, written)]
        mutate(r1) ==
            IF r1.raised # "" THEN [st EXCEPT !.cache = r1.cache, !.raised = r1.raised]
            ELSE IF IsNone(r1.value[1]) THEN [st EXCEPT !.cache = r1.cache]
            ELSE write(r1, isAnisotropic(r1.cache, self, owner, continuousLocation))
    IN  mutate(getGlyphMutator(st.cache, self, owner, glyphName, None, discreteLocation,
                               fault))

RECURSIVE instanceGlyphs(_, _, _, _, _, _, _, _, _, _)
instanceGlyphs(st, self, owner, selected, i, continuousLocation, discreteLocation, locHorizontal, locVertical, fault) ==
    IF i > Len(selected) \/ st.raised # "" THEN st
    ELSE instanceGlyphs(instanceGlyph(st, self, owner, selected[i], continuousLocation,
                                      discreteLocation, locHorizontal, locVertical, fault),
                        self, owner, selected, i + 1, continuousLocation, discreteLocation,
                        locHorizontal, locVertical, fault)

\* makeInstance(instanceDescriptor, glyphNames=..., pairs=...): the output font
makeInstance(c, self, owner, inst, glyphNames, pairs, fault) ==
    LET split == splitLocation(self, inst.location)
        loc == split[1]
        given == ~IsNone(glyphNames) /\ The(glyphNames) # <<>>
        done(rI, st) ==
            IF st.raised # "" THEN Raise(st.cache, rI.self, st.raised)
            ELSE Ret(st.cache, rI.self, Some(st.font))
        glyphs(rS, rI, copied) ==
            LET selected == IF given THEN The(glyphNames) ELSE The(rI.self.glyphNames)
                font == [copied.font EXCEPT !.glyphOrder = Some(selected)]
            IN  IF copied.raised # "" THEN Raise(rI.cache, rI.self, copied.raised)
                ELSE IF ~given /\ IsNone(rI.self.glyphNames)
                THEN Raise(rI.cache, rI.self, "AttributeError")
                ELSE done(rI, instanceGlyphs([cache |-> rI.cache, font |-> font,
                                              raised |-> ""],
                                             rI.self, owner, selected, 1, loc, split[2],
                                             rS.value[1], rS.value[2], fault))
        info(rS, rK, rI) ==
            IF rI.raised # "" THEN rI
            ELSE glyphs(rS, rI,
                        copyLoop(rI.self, rI.self.doc.sources, 1,
                                 [font |-> [NewFont EXCEPT !.kerning = rK.value,
                                                           !.info = rI.value,
                                                           !.names = inst.name],
                                  raised |-> ""]))
        kerning(rA, rS, rK) ==
            IF rK.raised # "" THEN rK
            ELSE info(rS, rK, instanceInfo(rK.cache, rK.self, owner, split[2], rA.value, loc,
                                           rS.value[1], rS.value[2], fault))
        halves(rA, rS) ==
            IF rS.raised # "" THEN rS
            ELSE kerning(rA, rS, instanceKerning(rS.cache, self, owner, inst, pairs, split[2],
                                                 rS.value[1], fault))
        start(rA) ==
            halves(rA, IF rA.value THEN splitAnisotropic(rA.cache, self, owner, loc)
                       ELSE Ret(rA.cache, self, <<loc, loc>>))
    IN  start(isAnisotropic(c, self, owner, loc))

\* the fixed proportions makeFontProportions starts from
DefaultProportions == Info(1000, 750, -250, 500)

\* makeFontProportions(location): the names loc, locHorizontal and locVertical
\* it interpolates at are bound nowhere in the function or the module
makeFontProportionsBody(c, self, owner, location, fault) ==
    LET undefined(r, rA) == Raise(rA.cache, r.self, "NameError")
        made(r) ==
            IF r.raised # "" THEN r
            ELSE IF IsNone(r.value) THEN Ret(r.cache, r.self, Some(DefaultProportions))
            ELSE undefined(r, isAnisotropic(r.cache, r.self, owner, location))
    IN  made(getInfoMutator(c, self, owner, splitLocation(self, location)[2], fault))

makeFontProportions(c, self, owner, location, fault) ==
    memoize(c, self, MemoKey("makeFontProportions", owner, <<LocObj(location)>>, <<>>),
            makeFontProportionsBody(c, self, owner, location, fault))

makeOneGlyphBody(c, self, owner, glyphName, location, decomposeComponents, useVarlib, roundGeometry, fault) ==
    LET split == splitLocation(self, location)
        check == checkDiscreteAxisValues(self, split[2])
        self1 == [self EXCEPT !.useVarlib = useVarlib]
        exc == FaultAt(fault, "instance", glyphName)
        excRound == IF roundGeometry THEN FaultAt(fault, "round", glyphName) ELSE ""
        made(r1, r2, r3) ==
            LET glyphMutator == The(r1.value[1])
                obj == IF ~r2.value THEN MathInstance(glyphMutator, split[1])
                       ELSE Merge(MathInstance(glyphMutator, r3.value[1]),
                                  MathInstance(glyphMutator, r3.value[2]))
            IN  IF r3.raised # "" THEN Raise(r3.cache, self1, r3.raised)
                ELSE IF exc = "IndexError"
                THEN IF self.debug THEN Ret(r3.cache, self1, None)
                     ELSE Raise(r3.cache, self1, "UnboundLocalError")
                ELSE IF exc # "" THEN Raise(r3.cache, self1, exc)
                ELSE IF excRound # "" THEN Raise(r3.cache, self1, excRound)
                ELSE Ret(r3.cache, self, Some([obj EXCEPT !.unicodes = r1.value[2]]))
        halves(r1, r2) ==
            made(r1, r2, IF r2.value THEN splitAnisotropic(r2.cache, self1, owner, split[1])
                         ELSE Ret(r2.cache, self1, <<split[1], split[1]>>))
        mutate(r1) ==
            IF r1.raised # "" THEN Raise(r1.cache, self1, r1.raised)
            ELSE IF IsNone(r1.value[1]) THEN Ret(r1.cache, self1, None)
            ELSE halves(r1, isAnisotropic(r1.cache, self1, owner, location))
    IN  IF check.raised # "" THEN Raise(c, self, check.raised)
        ELSE IF ~check.value THEN Ret(c, self, None)
        ELSE mutate(getGlyphMutator(c, self1, owner, glyphName, Some(decomposeComponents),
                                    split[2], fault))

\* makeOneGlyph(glyphName, location, decomposeComponents=..., useVarlib=...,
\* roundGeometry=...)
makeOneGlyph(c, self, owner, glyphName, location, decomposeComponents, useVarlib, roundGeometry, fault) ==
    memoize(c, self,
            MemoKey("makeOneGlyph", owner, <<PyStr(glyphName), LocObj(location)>>,
                    << <<PyStr("decomposeComponents"), PyBool(decomposeComponents)>>,
                       <<PyStr("useVarlib"), PyBool(useVarlib)>>,
                       <<PyStr("roundGeometry"), PyBool(roundGeometry)>> >>),
            makeOneGlyphBody(c, self, owner, glyphName, location, decomposeComponents,
                             useVarlib, roundGeometry, fault))

(***************************************************************************)
(* Loading and updating the fonts.                                         *)
(***************************************************************************)
\* _instantiateFont(path): a new font object read from the file
instantiateFont(owner, path) == [DiskFont(path) EXCEPT !.ident = <<owner, path>>]

RECURSIVE loadLoop(_, _, _, _)
\* the loop of loadFonts over the sources: <<fonts, names>> from source i on
loadLoop(owner, sources, i, acc) ==
    IF i > Len(sources) THEN acc
    ELSE LET sd == sources[i]
             f == instantiateFont(owner, sd.path)
         IN  IF DictHas(acc[1], sd.name) THEN loadLoop(owner, sources, i + 1, acc)
             ELSE IF sd.path \in Disk
             THEN loadLoop(owner, sources, i + 1,
                           <<DictSet(acc[1], sd.name, Some(f)),
                             acc[2] \cup DOMAIN f.layers[DefaultLayerName]>>)
             ELSE loadLoop(owner, sources, i + 1, <<DictSet(acc[1], sd.name, None), acc[2]>>)

\* the orders list(names) can have
ListsOf(set) == {q \in UNION {[1..n -> set] : n \in {Cardinality(set)}} : SeqRange(q) = set}

\* loadFonts(reload); glyphNames is list(names), in the order listOfNames
loadFonts(self, owner, reload, listOfNames) ==
    IF self.fontsLoaded /\ ~reload THEN self
    ELSE LET r == loadLoop(owner, self.doc.sources, 1, <<self.fonts, {}>>)
         IN  [self EXCEPT !.fonts = r[1], !.glyphNames = Some(listOfNames),
                          !.fontsLoaded = TRUE]
\* the lists list(names) can be in that call
loadFontsNames(self, owner, reload) ==
    IF self.fontsLoaded /\ ~reload THEN {<<>>}
    ELSE ListsOf(loadLoop(owner, self.doc.sources, 1, <<self.fonts, {}>>)[2])

RECURSIVE updateInner(_, _, _, _)
\* the inner loop of updateFonts over self.fonts.items(), for one newFont
updateInner(newFont, i, acc, n) ==
    IF i > n \/ acc.raised # "" THEN acc
    ELSE LET have == acc.fonts[i][2]
         IN  IF IsNone(have) THEN [acc EXCEPT !.raised = "AttributeError"]
             ELSE IF The(have).path = newFont.path /\ The(have).ident # newFont.ident
             THEN updateInner(newFont, i + 1,
                              [acc EXCEPT !.fonts[i] = <<acc.fonts[i][1], Some(newFont)>>,
                                          !.hasUpdated = TRUE], n)
             ELSE updateInner(newFont, i + 1, acc, n)

RECURSIVE updateOuter(_, _, _)
updateOuter(fontObjects, j, acc) ==
    IF j > Len(fontObjects) \/ acc.raised # "" THEN acc
    ELSE updateOuter(fontObjects, j + 1,
                     updateInner(fontObjects[j], 1, acc, Len(acc.fonts)))

\* updateFonts(fontObjects)
updateFonts(c, self, owner, fontObjects) ==
    LET acc == updateOuter(fontObjects, 1,
                           [fonts |-> self.fonts, hasUpdated |-> FALSE, raised |-> ""])
        self2 == [self EXCEPT !.fonts = acc.fonts]
    IN  IF acc.raised # "" THEN Raise(c, self2, acc.raised)
        ELSE IF acc.hasUpdated THEN Ret(changed(c, owner), self2, None)
        ELSE Ret(c, self2, None)

(***************************************************************************)
(* generateUFOs.                                                           *)
(***************************************************************************)
RECURSIVE splitInterpolable(_, _)
\* splitInterpolable(doc): one sub-space per combination of the values of the
\* discrete axes, from axis i on; a space without a discrete axis is one sub-space
splitInterpolable(axes, i) ==
    IF i > Len(axes) THEN << <<>> >>
    ELSE LET rest == splitInterpolable(axes, i + 1)
             values == axes[i].values
         IN  IF ~axes[i].discrete THEN rest
             ELSE [k \in 1..(Len(values) * Len(rest)) |->
                     << <<axes[i].name, values[((k - 1) \div Len(rest)) + 1]>> >>
                         \o rest[((k - 1) % Len(rest)) + 1]]

\* one pass of the inner loop of generateUFOs: build the instance, save the font
generateStep(st, owner, inst, fault) ==
    LET built(r) ==
            IF r.raised # ""
            THEN [st EXCEPT !.cache = r.cache, !.self = r.self, !.raised = r.raised]
            ELSE [st EXCEPT !.cache = r.cache, !.self = r.self,
                            !.saved = Append(@, <<The(inst.path), The(r.value)>>)]
    IN  IF IsNone(inst.path) THEN st
        ELSE built(makeInstance(st.cache, st.self, owner, inst, st.self.glyphNames, None,
                                fault))

RECURSIVE generateLoop(_, _, _, _, _, _)
\* the two loops of generateUFOs, over the sub-spaces and, in each, over
\* self.doc.instances: pass k of spaces * Len(instances)
generateLoop(st, owner, spaces, instances, k, fault) ==
    IF k > spaces * Len(instances) \/ st.raised # "" THEN st
    ELSE generateLoop(generateStep(st, owner, instances[((k - 1) % Len(instances)) + 1],
                                   fault),
                      owner, spaces, instances, k + 1, fault)

\* generateUFOs(useVarLib): the value is the list of <<path, font>> saved
generateUFOs(c, self, owner, useVarLib, listOfNames, fault) ==
    LET done(st) ==
            IF st.raised # "" THEN Raise(st.cache, st.self, st.raised)
            ELSE Ret(st.cache, st.self, Some(st.saved))
        loaded(self1) ==
            done(generateLoop([cache |-> c, self |-> self1, saved |-> <<>>, raised |-> ""],
                              owner, Len(splitInterpolable(self1.doc.axes, 1)),
                              self1.doc.instances, 1, fault))
    IN  IF ~IsNone(useVarLib) THEN Raise(c, self, "NameError")
        ELSE loaded(loadFonts(self, owner, FALSE, listOfNames))

(***************************************************************************)
(* collectBaseGlyphs.                                                      *)
(***************************************************************************)
RECURSIVE getComponentNames(_, _)
\* _getComponentNames(glyph): [raised, value], the base glyphs of the glyph and,
\* through glyph.font[baseGlyph], of its base glyphs
getComponentNames(font, glyphName) ==
    LET glyph == font.layers[DefaultLayerName][glyphName]
        bases == SeqRange(glyph.components)
        below == {getComponentNames(font, b) : b \in {x \in bases : InFont(x, font)}}
    IN  IF \E b \in bases : ~InFont(b, font) THEN [raised |-> "KeyError", value |-> {}]
        ELSE IF \E r \in below : r.raised # ""
        THEN [raised |-> "KeyError", value |-> {}]
        ELSE [raised |-> "", value |-> bases \cup UNION {r.value : r \in below}]

RECURSIVE baseGlyphsLoop(_, _, _, _, _)
\* the loop of collectBaseGlyphs over the sources: [raised, value] from source i on
baseGlyphsLoop(self, glyphName, sources, i, acc) ==
    IF i > Len(sources) \/ acc.raised # "" THEN acc
    ELSE LET f == fontsItem(self, sources[i].name)
             names == getComponentNames(The(f.value), glyphName)
         IN  IF f.raised # "" THEN [acc EXCEPT !.raised = f.raised]
             ELSE IF IsNone(f.value) THEN [acc EXCEPT !.raised = "TypeError"]
             ELSE IF ~InFont(glyphName, The(f.value))
             THEN baseGlyphsLoop(self, glyphName, sources, i + 1, acc)
             ELSE IF names.raised # "" THEN [acc EXCEPT !.raised = names.raised]
             ELSE baseGlyphsLoop(self, glyphName, sources, i + 1,
                                 [acc EXCEPT !.value = @ \cup names.value])

\* collectBaseGlyphs(glyphName, location): the set of names of list(names)
collectBaseGlyphs(c, self, owner, glyphName, location) ==
    LET looped(r, acc) ==
            IF acc.raised # "" THEN Raise(r.cache, self, acc.raised)
            ELSE Ret(r.cache, self, Some(acc.value))
        found(r) ==
            looped(r, baseGlyphsLoop(self, glyphName, r.value, 1,
                                     [raised |-> "", value |-> {}]))
    IN  found(findSourceDescriptorsForDiscreteLocation(c, self, owner,
                                                       splitLocation(self, location)[2]))

(***************************************************************************)
(* The calls, as actions.  last records the call and what came of it;      *)
(* dropped counts the cache entries the call removed.                      *)
(***************************************************************************)
DiscreteLocations == {None, Some(Loc1("style", 0)), Some(Loc1("style", 1))}
\* the discrete locations the calls of Spec and SpecEdit are made with
CallLocations == {None, Some(Loc1("style", 0))}

Call(op, owner, glyph, loc, r) ==
    [op |-> op, owner |-> owner, glyph |-> glyph, loc |-> loc,
     fault |-> NoFault, arg |-> None,
     raised |-> r.raised, value |-> r.value,
     dropped |-> Cardinality(DOMAIN memoizeCache \ DOMAIN r.cache)]

Done(op, owner, glyph, loc, r) ==
    /\ ops' = [ops EXCEPT ![owner] = r.self]
    /\ memoizeCache' = r.cache
    /\ last' = Call(op, owner, glyph, loc, r)

CacheHasRoom == Cardinality(DOMAIN memoizeCache) < MaxCache

Find(o, D) ==
    /\ CacheHasRoom
    /\ Done("findSourceDescriptorsForDiscreteLocation", o, "", D,
            findSourceDescriptorsForDiscreteLocation(memoizeCache, ops[o], o, D))

Collect(o, g, dc, D) ==
    /\ CacheHasRoom
    /\ Done("collectSourcesForGlyph", o, g, D,
            collectSourcesForGlyph(memoizeCache, ops[o], o, g, dc, D))

BuildFaults(subject) == {NoFault} \cup {Fault("build", subject, e) : e \in BuildExceptions}

GetGlyphMutator(o, g, D, fault) ==
    /\ CacheHasRoom
    /\ Done("getGlyphMutator", o, g, D,
            getGlyphMutator(memoizeCache, ops[o], o, g, None, D, fault))

Changed(o) ==
    /\ o \in Owners
    /\ Done("changed", o, "", None, Ret(changed(memoizeCache, o), ops[o], None))

GlyphChanged(o, g) ==
    /\ g \in GlyphNames
    /\ Done("glyphChanged", o, g, None, Ret(glyphChanged(memoizeCache, o, g), ops[o], None))

\* addAxis, addSource, addInstance: the document's own append
addAxis(self, axisDescriptor) == [self EXCEPT !.doc.axes = Append(@, axisDescriptor)]
addSource(self, sourceDescriptor) == [self EXCEPT !.doc.sources = Append(@, sourceDescriptor)]
addInstance(self, instanceDescriptor) ==
    [self EXCEPT !.doc.instances = Append(@, instanceDescriptor)]

\* read(path): wrap the document read from the file, then changed()
read(c, self, owner, document) == Ret(changed(c, owner), [self EXCEPT !.doc = document], None)

AddAxis(o, a) ==
    /\ Len(ops[o].doc.axes) < MaxAxes
    /\ \A i \in DOMAIN ops[o].doc.axes : ops[o].doc.axes[i].name # a.name
    /\ Done("addAxis", o, "", None, Ret(memoizeCache, addAxis(ops[o], a), None))

AddSource(o, s) ==
    /\ Len(ops[o].doc.sources) < MaxSources
    /\ \A i \in DOMAIN ops[o].doc.sources : ops[o].doc.sources[i].name # s.name
    /\ Done("addSource", o, "", None, Ret(memoizeCache, addSource(ops[o], s), None))

InstancePool == {Instance("i1", Loc2("weight", 1, "style", 0), Some("i1.ufo"), FALSE)}

AddInstance(o, i) ==
    /\ Len(ops[o].doc.instances) < MaxInstances
    /\ Done("addInstance", o, "", None, Ret(memoizeCache, addInstance(ops[o], i), None))

BaseAxes == <<AxisWeight, AxisStyle>>
DocX == Doc(BaseAxes, <<SrcD, SrcM1>>, <<>>)
DocY == Doc(BaseAxes, <<SrcM1, SrcD>>, <<>>)
\* the designspace files read() can be given
DocsOnDisk == {Doc(BaseAxes, <<SrcD, SrcS1>>, <<>>)}

Read(o, d) ==
    /\ ops[o].doc # d
    /\ Done("read", o, "", None, read(memoizeCache, ops[o], o, d))

LoadFonts(o, reload) ==
    \E names \in loadFontsNames(ops[o], o, reload) :
        Done("loadFonts", o, "", None,
             Ret(memoizeCache, loadFonts(ops[o], o, reload, names), None))

\* the font objects a host hands to updateFonts: an open font of its own
HostFont(path) == [DiskFont(path) EXCEPT !.ident = <<"host", path>>]
UpdateFonts(o, fontObjects) ==
    /\ o \in Owners
    /\ Done("updateFonts", o, "", None, updateFonts(memoizeCache, ops[o], o, fontObjects))

NoCall == [op |-> "", owner |-> "", glyph |-> "", loc |-> None,
           fault |-> NoFault, arg |-> None,
           raised |-> "", value |-> None, dropped |-> 0]

\* a reachable state: both operators constructed on their documents and
\* loadFonts() called once
Loaded(owner, doc, useVarlib, debug) ==
    LET self == NewOperator(doc, useVarlib, debug)
    IN  loadFonts(self, owner, FALSE, CHOOSE q \in loadFontsNames(self, owner, FALSE) : TRUE)

Init ==
    /\ \E dx \in BOOLEAN :
         ops = [o \in Owners |-> IF o = "X" THEN Loaded(o, DocX, TRUE, dx)
                                 ELSE Loaded(o, DocY, TRUE, FALSE)]
    /\ memoizeCache = <<>>
    /\ last = NoCall

Next ==
    \/ \E o \in Owners, D \in CallLocations : Find(o, D)
    \/ \E o \in Owners, g \in GlyphNames, D \in CallLocations : Collect(o, g, FALSE, D)
    \/ \E o \in Owners, g \in GlyphNames, D \in CallLocations :
          \E fault \in {NoFault, Fault("build", g, "KeyError")} : GetGlyphMutator(o, g, D, fault)
    \/ \E o \in Owners : Changed(o)
    \/ \E o \in Owners, g \in GlyphNames : GlyphChanged(o, g)

Spec == Init /\ [][Next]_vars

(***************************************************************************)
(* SpecEdit: one operator whose document and fonts are edited between the  *)
(* memoized calls.                                                         *)
(***************************************************************************)
InitEdit ==
    /\ \E dx \in BOOLEAN :
         ops = [o \in Owners |-> IF o = "X" THEN NewOperator(DocX, TRUE, dx)
                                 ELSE NewOperator(DocY, TRUE, FALSE)]
    /\ memoizeCache = <<>>
    /\ last = NoCall

NextEdit ==
    \/ \E D \in CallLocations : Find("X", D)
    \/ Collect("X", "A", FALSE, None)
    \/ Changed("X")
    \/ \E a \in AxisPool : AddAxis("X", a)
    \/ \E s \in {SrcS1, SrcMu} : AddSource("X", s)
    \/ \E i \in InstancePool : AddInstance("X", i)
    \/ \E d \in DocsOnDisk : Read("X", d)
    \/ \E reload \in BOOLEAN : LoadFonts("X", reload)
    \/ UpdateFonts("X", <<HostFont("d")>>)

SpecEdit == InitEdit /\ [][NextEdit]_vars

(***************************************************************************)
(* SpecCollect: one operator on a document whose sources are any sequence  *)
(* of distinct descriptors of the pool, fonts loaded, and the calls of     *)
(* collectSourcesForGlyph on it.                                           *)
(***************************************************************************)
SourceLists ==
    {q \in UNION {[1..n -> SourcePool] : n \in 1..MaxSources} :
        \A i, j \in DOMAIN q : i # j => q[i] # q[j]}
MutedAxisChoices == {None, Some(<<"weight">>)}

InitCollect ==
    /\ \E q \in SourceLists, dx \in BOOLEAN, mu \in MutedAxisChoices :
         ops = [o \in Owners |->
                  IF o = "X"
                  THEN [Loaded(o, Doc(BaseAxes, q, <<>>), TRUE, dx) EXCEPT !.mutedAxisNames = mu]
                  ELSE NewOperator(DocY, TRUE, FALSE)]
    /\ memoizeCache = <<>>
    /\ last = NoCall

NextCollect ==
    \/ \E g \in GlyphNames, dc \in BOOLEAN, D \in DiscreteLocations : Collect("X", g, dc, D)
    \/ Changed("X")

SpecCollect == InitCollect /\ [][NextCollect]_vars

(***************************************************************************)
(* SpecBuild: one operator with its fonts loaded, and the calls that build *)
(* mutators, instances, single glyphs and font proportions on it.  Each    *)
(* call is made with the fault, if any, of the engine or the font object.  *)
(***************************************************************************)
\* a call made with a fault of the engine: as Done, the fault and argument recorded
DoneWith(op, owner, glyph, loc, fault, arg, r) ==
    /\ ops' = [ops EXCEPT ![owner] = r.self]
    /\ memoizeCache' = r.cache
    /\ last' = [Call(op, owner, glyph, loc, r) EXCEPT !.fault = fault, !.arg = arg]

\* the calls of SpecBuild are made while the cache holds fewer entries than this
BuildHasRoom == Cardinality(DOMAIN memoizeCache) < MaxBuildCache

\* the exceptions a failing round() and a failing write into the font raise
RoundExceptions == {"AttributeError", "ValueError"}
WriteExceptions == {"TypeError", "ValueError"}
Subjects == GlyphNames \cup {"info", "kerning"}
Faults ==
    {NoFault}
        \cup {Fault("build", x, e) : x \in Subjects, e \in BuildExceptions}
        \cup {Fault("instance", x, e) : x \in Subjects, e \in InstanceExceptions}
        \cup {Fault("round", x, e) : x \in GlyphNames \cup {"info"}, e \in RoundExceptions}
        \cup {Fault("write", x, e) : x \in GlyphNames, e \in WriteExceptions}
FaultsOf(subjects) == {f \in Faults : f = NoFault \/ f.subject \in subjects}

\* the locations asked for: legal, anisotropic, without a discrete axis, and
\* with a value the discrete axis does not have
LocLegal == Loc2("weight", 1, "style", 0)
LocAnisotropic == << <<"weight", PyTuple(<<PyInt(1), PyInt(2)>>)>>, <<"style", PyInt(0)>> >>
LocNoDiscrete == Loc1("weight", 1)
LocIllegal == Loc2("weight", 1, "style", 5)
BuildLocations == {LocLegal, LocAnisotropic, LocNoDiscrete, LocIllegal}

BuildInstances ==
    {Instance("i1", LocLegal, Some("i1.ufo"), FALSE),
     Instance("i2", LocAnisotropic, Some("i2.ufo"), TRUE)}
DocBuild == Doc(BaseAxes, <<SrcD, SrcM1>>, <<>>)

\* getVariationModel(items, axes, bias), called with the info items of the sources
GetVariationModel(o, fault) ==
    LET self == ops[o]
        items == infoLoop(self, self.doc.sources, 1, [items |-> <<>>, raised |-> ""]).items
        m == getVariationModel(self, "info", items, newDefaultLocationBody(self, TRUE, None),
                               fault)
    IN  /\ BuildHasRoom
        /\ DoneWith("getVariationModel", o, "", None, fault, None,
                    [cache |-> memoizeCache, self |-> self, raised |-> m.raised,
                     value |-> IF m.raised = "" THEN m.value[2] ELSE None])

GetInfoMutator(o, D, fault) ==
    /\ BuildHasRoom
    /\ DoneWith("getInfoMutator", o, "", D, fault, None,
                getInfoMutator(memoizeCache, ops[o], o, D, fault))

GetKerningMutator(o, pairs, D, fault) ==
    /\ BuildHasRoom
    /\ DoneWith("getKerningMutator", o, "", D, fault, pairs,
                getKerningMutator(memoizeCache, ops[o], o, pairs, D, fault))

MakeInstance(o, inst, glyphNames, pairs, fault) ==
    /\ BuildHasRoom
    /\ DoneWith("makeInstance", o, "", Some(inst.location), fault,
                Some([inst |-> inst, glyphNames |-> glyphNames, pairs |-> pairs]),
                makeInstance(memoizeCache, ops[o], o, inst, glyphNames, pairs, fault))

MakeOneGlyph(o, g, location, useVarlib, roundGeometry, fault) ==
    /\ BuildHasRoom
    /\ DoneWith("makeOneGlyph", o, g, Some(location), fault, None,
                makeOneGlyph(memoizeCache, ops[o], o, g, location, TRUE, useVarlib,
                             roundGeometry, fault))

MakeFontProportions(o, location, fault) ==
    /\ BuildHasRoom
    /\ DoneWith("makeFontProportions", o, "", Some(location), fault, None,
                makeFontProportions(memoizeCache, ops[o], o, location, fault))

InitBuild ==
    /\ \E uv \in BOOLEAN, dx \in BOOLEAN, rg \in BOOLEAN :
         ops = [o \in Owners |->
                  IF o = "X"
                  THEN [Loaded(o, DocBuild, uv, dx) EXCEPT !.roundGeometry = rg]
                  ELSE NewOperator(DocY, TRUE, FALSE)]
    /\ memoizeCache = <<>>
    /\ last = NoCall

NextBuild ==
    \/ \E fault \in FaultsOf({"info"}) : GetVariationModel("X", fault)
    \/ \E D \in CallLocations, fault \in FaultsOf({"info"}) : GetInfoMutator("X", D, fault)
    \/ \E pairs \in {None, Some(<<KernPair>>)}, D \in CallLocations :
          \E fault \in FaultsOf({"kerning"}) : GetKerningMutator("X", pairs, D, fault)
    \/ \E inst \in BuildInstances, glyphNames \in {None, Some(<<"A">>)} :
          \E pairs \in {None, Some(<<KernPair>>)}, fault \in Faults :
              MakeInstance("X", inst, glyphNames, pairs, fault)
    \/ \E g \in GlyphNames, location \in BuildLocations, uv \in BOOLEAN :
          \E fault \in FaultsOf({g}) : MakeOneGlyph("X", g, location, uv, FALSE, fault)
    \/ \E location \in BuildLocations, fault \in BuildFaults("info") :
          MakeFontProportions("X", location, fault)

SpecBuild == InitBuild /\ [][NextBuild]_vars

(***************************************************************************)
(* SpecGenerate: one operator on a design space with or without a discrete *)
(* axis, whose instances are any list of the pool, and generateUFOs on it. *)
(***************************************************************************)
SrcW0 == [Source("w0", Loc1("weight", 0), None, {}) EXCEPT !.path = "d"]
\* the design spaces: two discrete locations (style 0 and 1), and none
GenerateSpaces ==
    {Doc(<<AxisWeight, AxisStyle>>, <<SrcD, SrcM1>>, <<>>),
     Doc(<<AxisWeight>>, <<SrcW0, SrcW>>, <<>>)}
GenerateInstances(doc) ==
    IF Len(doc.axes) = 1
    THEN {Instance("i1", Loc1("weight", 1), Some("i1.ufo"), FALSE),
          Instance("i2", Loc1("weight", 2), Some("i2.ufo"), FALSE),
          Instance("i3", Loc1("weight", 1), None, FALSE)}
    ELSE {Instance("i1", LocLegal, Some("i1.ufo"), FALSE),
          Instance("i2", Loc2("weight", 2, "style", 0), Some("i2.ufo"), FALSE),
          Instance("i3", LocLegal, None, FALSE)}
InstanceLists(doc) ==
    {q \in UNION {[1..n -> GenerateInstances(doc)] : n \in 0..(MaxInstances + 1)} :
        \A i, j \in DOMAIN q : i # j => q[i] # q[j]}

GenerateUFOs(o, useVarLib, fault) ==
    /\ BuildHasRoom
    /\ \E names \in loadFontsNames(ops[o], o, FALSE) :
         DoneWith("generateUFOs", o, "", None, fault, useVarLib,
                  generateUFOs(memoizeCache, ops[o], o, useVarLib, names, fault))

InitGenerate ==
    /\ \E doc \in GenerateSpaces, uv \in BOOLEAN, dx \in BOOLEAN :
         \E q \in InstanceLists(doc), loaded \in BOOLEAN :
           ops = [o \in Owners |->
                    IF o = "X"
                    THEN IF loaded THEN Loaded(o, [doc EXCEPT !.instances = q], uv, dx)
                         ELSE NewOperator([doc EXCEPT !.instances = q], uv, dx)
                    ELSE NewOperator(DocY, TRUE, FALSE)]
    /\ memoizeCache = <<>>
    /\ last = NoCall

NextGenerate ==
    \/ \E useVarLib \in {None, Some(TRUE)} :
          \E fault \in {NoFault, Fault("instance", "A", "IndexError")} :
              GenerateUFOs("X", useVarLib, fault)
    \/ Changed("X")

SpecGenerate == InitGenerate /\ [][NextGenerate]_vars

(***************************************************************************)
(* SpecFonts: one operator whose sources are any list of sources with and  *)
(* without a file on disk; its fonts are loaded, replaced by a host, and   *)
(* collected from.                                                         *)
(***************************************************************************)
FontSources == {SrcD, SrcM1, SrcM2, SrcX}
FontSourceLists ==
    {q \in UNION {[1..n -> FontSources] : n \in 1..(MaxSources - 1)} :
        \A i, j \in DOMAIN q : i # j => q[i] # q[j]}
\* the lists of open fonts a host hands to updateFonts
HostFontLists == {<<HostFont("m1"), HostFont("d")>>, <<HostFont("w")>>}

LoadFontsWith(o, reload) ==
    \E names \in loadFontsNames(ops[o], o, reload) :
        DoneWith("loadFonts", o, "", None, NoFault, Some(reload),
                 Ret(memoizeCache, loadFonts(ops[o], o, reload, names), None))

UpdateFontsWith(o, fontObjects) ==
    /\ o \in Owners
    /\ DoneWith("updateFonts", o, "", None, NoFault, Some(fontObjects),
                updateFonts(memoizeCache, ops[o], o, fontObjects))

CollectBaseGlyphs(o, g, location) ==
    /\ CacheHasRoom
    /\ Done("collectBaseGlyphs", o, g, Some(location),
            collectBaseGlyphs(memoizeCache, ops[o], o, g, location))

InitFonts ==
    /\ \E q \in FontSourceLists, dx \in BOOLEAN :
         ops = [o \in Owners |->
                  IF o = "X" THEN NewOperator(Doc(BaseAxes, q, <<>>), TRUE, dx)
                  ELSE NewOperator(DocY, TRUE, FALSE)]
    /\ memoizeCache = <<>>
    /\ last = NoCall

NextFonts ==
    \/ \E reload \in BOOLEAN : LoadFontsWith("X", reload)
    \/ \E fontObjects \in HostFontLists : UpdateFontsWith("X", fontObjects)
    \/ Collect("X", "A", FALSE, None)
    \/ \E g \in GlyphNames : CollectBaseGlyphs("X", g, LocNoDiscrete)
    \/ \E D \in CallLocations : GetInfoMutator("X", D, NoFault)
    \/ \E pairs \in {None, Some(<<KernPair>>)} : GetKerningMutator("X", pairs, None, NoFault)
    \/ \E inst \in BuildInstances : MakeInstance("X", inst, Some(<<"A">>), None, NoFault)
    \/ Changed("X")

SpecFonts == InitFonts /\ [][NextFonts]_vars

(***************************************************************************)
(* SpecLocation: the functions on locations, applied to every location of  *)
(* at most MaxLocation axes with a scalar, a tuple pair or a list pair as  *)
(* value, on operators with different discrete axes.                       *)
(***************************************************************************)
LocationNames == {"weight", "style"}
LocationValues ==
    {PyInt(1), PyTuple(<<PyInt(1), PyInt(2)>>), PyList(<<PyInt(1), PyInt(2)>>)}
Locations ==
    {L \in UNION {[1..n -> LocationNames \X LocationValues] : n \in 0..MaxLocation} :
        \A i, j \in DOMAIN L : i # j => L[i][1] # L[j][1]}
LocationAxes == {<<AxisWeight>>, BaseAxes, <<AxisStyle, AxisWidth>>}

SplitLocation(o, location) ==
    /\ o \in Owners
    /\ Done("splitLocation", o, "", Some(location),
            Ret(memoizeCache, ops[o], splitLocation(ops[o], location)))

IsAnisotropic(o, location) ==
    /\ BuildHasRoom
    /\ Done("isAnisotropic", o, "", Some(location),
            isAnisotropic(memoizeCache, ops[o], o, location))

SplitAnisotropic(o, location) ==
    /\ BuildHasRoom
    /\ Done("splitAnisotropic", o, "", Some(location),
            splitAnisotropic(memoizeCache, ops[o], o, location))

InitLocation ==
    /\ \E axes \in LocationAxes :
         ops = [o \in Owners |->
                  IF o = "X" THEN NewOperator(Doc(axes, <<>>, <<>>), TRUE, FALSE)
                  ELSE NewOperator(DocY, TRUE, FALSE)]
    /\ memoizeCache = <<>>
    /\ last = NoCall

NextLocation ==
    \/ \E location \in Locations : SplitLocation("X", location)
    \/ \E location \in Locations : IsAnisotropic("X", location)
    \/ \E location \in Locations : SplitAnisotropic("X", location)
    \/ Changed("X")

SpecLocation == InitLocation /\ [][NextLocation]_vars

(***************************************************************************)
(* SpecAnisotropic: glyphs and instances made at isotropic locations and   *)
(* at locations with a tuple pair or a list pair, by both engines.         *)
(***************************************************************************)
LocListPair == << <<"weight", PyList(<<PyInt(1), PyInt(2)>>)>>, <<"style", PyInt(0)>> >>
AnisotropicLocations == {LocLegal, LocAnisotropic, LocListPair, LocNoDiscrete}
AnisotropicInstances ==
    BuildInstances \cup {Instance("i3", LocListPair, Some("i3.ufo"), FALSE)}

InitAnisotropic ==
    /\ \E uv \in BOOLEAN, rg \in BOOLEAN :
         ops = [o \in Owners |->
                  IF o = "X"
                  THEN [Loaded(o, DocBuild, uv, FALSE) EXCEPT !.roundGeometry = rg]
                  ELSE NewOperator(DocY, TRUE, FALSE)]
    /\ memoizeCache = <<>>
    /\ last = NoCall

NextAnisotropic ==
    \/ \E g \in GlyphNames, location \in AnisotropicLocations, uv \in BOOLEAN :
          \E rg \in BOOLEAN : MakeOneGlyph("X", g, location, uv, rg, NoFault)
    \/ \E inst \in AnisotropicInstances, glyphNames \in {None, Some(<<"A">>)} :
          MakeInstance("X", inst, glyphNames, None, NoFault)
    \/ Changed("X")

SpecAnisotropic == InitAnisotropic /\ [][NextAnisotropic]_vars

(***************************************************************************)
(* SpecLayers: collectSourcesForGlyph over sources of which some name a    *)
(* sparse layer, with and without the glyph in the default layer.          *)
(***************************************************************************)
LayerSources == {SrcD, SrcM2, SrcL, SrcK}
LayerSourceLists ==
    {q \in UNION {[1..n -> LayerSources] : n \in 1..(MaxSources - 1)} :
        \A i, j \in DOMAIN q : i # j => q[i] # q[j]}

InitLayers ==
    /\ \E q \in LayerSourceLists, dx \in BOOLEAN :
         ops = [o \in Owners |->
                  IF o = "X" THEN Loaded(o, Doc(BaseAxes, q, <<>>), TRUE, dx)
                  ELSE NewOperator(DocY, TRUE, FALSE)]
    /\ memoizeCache = <<>>
    /\ last = NoCall

NextLayers ==
    \/ \E g \in GlyphNames, dc \in BOOLEAN, D \in CallLocations : Collect("X", g, dc, D)
    \/ Changed("X")

SpecLayers == InitLayers /\ [][NextLayers]_vars

(***************************************************************************)
(* SpecKeys: memoized calls repeated on one owner with locations that are  *)
(* equal as mappings and differ in type or in the order of their entries.  *)
(***************************************************************************)
\* the tuple pair of LocAnisotropic as the only element of a list
LocWrappedPair ==
    << <<"weight", PyList(<<PyTuple(<<PyInt(1), PyInt(2)>>)>>)>>, <<"style", PyInt(0)>> >>
KeyLocations ==
    {Loc1("weight", 1), Loc2("weight", 1, "style", 0), Loc2("style", 0, "weight", 1),
     LocAnisotropic, LocListPair, LocWrappedPair}

MemoizedIsAnisotropic(o, location) ==
    /\ CacheHasRoom
    /\ Done("isAnisotropic", o, "", Some(location),
            isAnisotropic(memoizeCache, ops[o], o, location))

MemoizedSplitAnisotropic(o, location) ==
    /\ CacheHasRoom
    /\ Done("splitAnisotropic", o, "", Some(location),
            splitAnisotropic(memoizeCache, ops[o], o, location))

InitKeys ==
    /\ \E dx \in BOOLEAN :
         ops = [o \in Owners |->
                  IF o = "X" THEN NewOperator(DocX, TRUE, dx) ELSE NewOperator(DocY, TRUE, FALSE)]
    /\ memoizeCache = <<>>
    /\ last = NoCall

NextKeys ==
    \/ \E location \in KeyLocations : MemoizedIsAnisotropic("X", location)
    \/ \E location \in KeyLocations : MemoizedSplitAnisotropic("X", location)
    \/ Changed("X")

SpecKeys == InitKeys /\ [][NextKeys]_vars

(***************************************************************************)
(* SpecRecompute: glyphs made again and again on one operator, by either   *)
(* engine, with glyphChanged and changed in between, so that calls meet    *)
(* the results of earlier calls in the cache.  Glyph B of source m2 has    *)
(* glyph A as a component.                                                 *)
(***************************************************************************)
DocRecompute == Doc(BaseAxes, <<SrcD, SrcM2>>, <<>>)
GlyphsMade == {k \in DOMAIN memoizeCache : k[1] = "makeOneGlyph"}

MakeOneGlyphBy(o, g, location, useVarlib) ==
    /\ Cardinality(GlyphsMade) < MaxGlyphsMade
    /\ DoneWith("makeOneGlyph", o, g, Some(location), NoFault, Some(useVarlib),
                makeOneGlyph(memoizeCache, ops[o], o, g, location, TRUE, useVarlib, FALSE,
                             NoFault))

GetGlyphMutatorAgain(o, g, D) ==
    /\ Cardinality(GlyphsMade) < MaxGlyphsMade
    /\ Done("getGlyphMutator", o, g, D,
            getGlyphMutator(memoizeCache, ops[o], o, g, None, D, NoFault))

InitRecompute ==
    /\ \E uv \in BOOLEAN :
         ops = [o \in Owners |->
                  IF o = "X" THEN Loaded(o, DocRecompute, uv, FALSE)
                  ELSE NewOperator(DocY, TRUE, FALSE)]
    /\ memoizeCache = <<>>
    /\ last = NoCall

NextRecompute ==
    \/ \E g \in GlyphNames, uv \in BOOLEAN : MakeOneGlyphBy("X", g, LocLegal, uv)
    \/ \E g \in GlyphNames : GetGlyphMutatorAgain("X", g, Some(Loc1("style", 0)))
    \/ \E g \in GlyphNames : GlyphChanged("X", g)
    \/ Changed("X")

SpecRecompute == InitRecompute /\ [][NextRecompute]_vars

(***************************************************************************)
(* Claims on the memoize cache and its invalidation.                       *)
(***************************************************************************)
GlyphScoped == {"getGlyphMutator", "collectSourcesForGlyph"}
StructuralChanges == {"addAxis", "addSource", "addInstance", "read"}

\* C2: glyphChanged(g) on an owner removes only the glyph-scoped entries of that
\* owner whose leading argument is g; every other entry stays, with its value.
C2_GlyphChangedRemovesOnlyOwn ==
    [][last'.op = "glyphChanged" =>
        \A k \in DOMAIN memoizeCache :
            IF k \in DOMAIN memoizeCache'
            THEN memoizeCache'[k] = memoizeCache[k]
            ELSE /\ k[2] = last'.owner
                 /\ k[1] \in GlyphScoped
                 /\ k[3][1][1] = PyStr(last'.glyph)]_vars

\* C3: changed() on an owner leaves no entry of that owner in the cache and
\* leaves every entry of another owner in it, with its value.
C3_ChangedDropsOwnerOnly ==
    [][last'.op = "changed" =>
        /\ \A k \in DOMAIN memoizeCache' : k[2] # last'.owner
        /\ \A k \in DOMAIN memoizeCache :
              k[2] # last'.owner =>
                  k \in DOMAIN memoizeCache' /\ memoizeCache'[k] = memoizeCache[k]]_vars

\* C3, its case: changed() removed entries of its owner while another owner has some
C3_Witness ==
    /\ last.op = "changed"
    /\ last.dropped > 0
    /\ \E k \in DOMAIN memoizeCache : k[2] # last.owner

\* C4: after a structural change of an operator (addAxis, addSource, addInstance,
\* read, a font replaced by updateFonts) the cache holds no entry of that owner.
C4_StructuralChangeInvalidates ==
    [][(\/ last'.op \in StructuralChanges
        \/ /\ last'.op = "updateFonts"
           /\ ops'[last'.owner].fonts # ops[last'.owner].fonts) =>
        \A k \in DOMAIN memoizeCache' : k[2] # last'.owner]_vars

\* s agrees with the discrete location d on every axis name of d
Agrees(s, d) == \A i \in DOMAIN d : \E j \in DOMAIN s.location : s.location[j] = d[i]

\* C6: findSourceDescriptorsForDiscreteLocation(None) returns every registered
\* source, and with a discrete location exactly the sources that agree with it,
\* in registration order.
C6_FindReturnsMatchingSources ==
    last.op = "findSourceDescriptorsForDiscreteLocation" =>
        LET sources == ops[last.owner].doc.sources
        IN  IF IsNone(last.loc) THEN last.value = sources
            ELSE last.value = SelectSeq(sources, LAMBDA s : Agrees(s, The(last.loc)))

(***************************************************************************)
(* Claims on collectSourcesForGlyph.                                       *)
(***************************************************************************)
AxisDefault(self, n) == (CHOOSE a \in SeqRange(self.doc.axes) : a.name = n).default
AtDefault(self, sd) ==
    \A i \in DOMAIN sd.location : sd.location[i][2] = AxisDefault(self, sd.location[i][1])

\* the glyphs named g of the loaded sources at the default location, among the
\* candidates of discrete location D
DefaultGlyphs(self, g, D) ==
    {The(fontsGet(self, sd.name)).layers[DefaultLayerName][g] :
        sd \in {x \in SeqRange(self.doc.sources) :
                  /\ IsNone(D) \/ Agrees(x, The(D))
                  /\ AtDefault(self, x)
                  /\ IsNone(x.layerName)
                  /\ g \notin x.mutedGlyphNames
                  /\ ~IsNone(fontsGet(self, x.name))
                  /\ g \in DOMAIN The(fontsGet(self, x.name)).layers[DefaultLayerName]}}

ItemsOf(call) == {call.value[1][i] : i \in DOMAIN call.value[1]}

\* C1: the items collectSourcesForGlyph returns are all empty glyphs when the
\* glyph of the source at the default location is empty, and all non-empty
\* glyphs otherwise, in every registration order of the sources.
C1_KeptItemsHomogeneous ==
    (last.op = "collectSourcesForGlyph" /\ last.raised = "") =>
        LET defaults == DefaultGlyphs(ops[last.owner], last.glyph, last.loc)
        IN  IF \E d \in defaults : d.empty
            THEN \A it \in ItemsOf(last) : it.glyph.empty
            ELSE \A it \in ItemsOf(last) : ~it.glyph.empty

\* the sources of the document that mute glyph g
MutingSources(self, g) == {sd \in SeqRange(self.doc.sources) : g \in sd.mutedGlyphNames}

\* C5: for a glyph muted on exactly one source, collectSourcesForGlyph returns
\* normally, with or without debug logging, and no item of that source.
C5_MutedGlyphIsSkipped ==
    (/\ last.op = "collectSourcesForGlyph"
     /\ Cardinality(MutingSources(ops[last.owner], last.glyph)) = 1) =>
        /\ last.raised = ""
        /\ \A it \in ItemsOf(last) :
              \A sd \in MutingSources(ops[last.owner], last.glyph) :
                  it.sourceInfo.sourceName # sd.name

(***************************************************************************)
(* Claims on the builders: makeInstance, getVariationModel, makeOneGlyph   *)
(* and makeFontProportions.                                                *)
(***************************************************************************)
\* the key under which makeInstance asks for the mutator of glyph g
GlyphMutatorKey(owner, g, D) ==
    MemoKey("getGlyphMutator", owner, <<PyStr(g)>>,
            << <<PyStr("discreteLocation"), OptLocObj(D)>> >>)
\* the glyph names a call of makeInstance selects
SelectedGlyphNames(self, arg) ==
    IF ~IsNone(arg.glyphNames) /\ The(arg.glyphNames) # <<>> THEN The(arg.glyphNames)
    ELSE The(self.glyphNames)

\* C7: makeInstance returns an output font whatever fails for one glyph (building
\* its mutator, interpolating, rounding, writing); every other selected glyph
\* that has a mutator is written into the font.
C7_GlyphFailureAbortsOnlyThatGlyph ==
    (/\ last.op = "makeInstance"
     /\ last.fault = NoFault \/ last.fault.subject \in GlyphNames) =>
        /\ last.raised = ""
        /\ LET self == ops[last.owner]
               D == splitLocation(self, The(last.loc))[2]
               selected == SelectedGlyphNames(self, The(last.arg))
           IN  \A i \in DOMAIN selected :
                 LET k == GlyphMutatorKey(last.owner, selected[i], D)
                 IN  (/\ selected[i] # last.fault.subject
                      /\ k \in DOMAIN memoizeCache
                      /\ ~IsNone(memoizeCache[k][1])) =>
                         /\ DictHas(The(last.value).glyphs, selected[i])
                         /\ ~IsNone(DictGet(The(last.value).glyphs, selected[i]).value)

\* the failures of building a model: type mismatch, missing key, inconsistent sources
ConstructionFailures == {"TypeError", "KeyError", "AssertionError"}
\* the cache key of a call of getInfoMutator or getKerningMutator
MutatorKey(call) ==
    IF call.op = "getInfoMutator"
    THEN MemoKey("getInfoMutator", call.owner, <<>>,
                 << <<PyStr("discreteLocation"), OptLocObj(call.loc)>> >>)
    ELSE MemoKey("getKerningMutator", call.owner, <<>>,
                 (IF IsNone(call.arg) THEN <<>>
                  ELSE << <<PyStr("pairs"), PairsObj(The(call.arg))>> >>)
                 \o << <<PyStr("discreteLocation"), OptLocObj(call.loc)>> >>)

\* C8: when the engine fails to build the model (type mismatch, missing key,
\* inconsistent source set), with either engine, getVariationModel returns a
\* null mutator without raising, and so do getInfoMutator and getKerningMutator.
C8_BuildFailureGivesNullMutator ==
    [][(/\ last'.op \in {"getVariationModel", "getInfoMutator", "getKerningMutator"}
        /\ last'.fault.stage = "build"
        /\ last'.fault.exc \in ConstructionFailures
        /\ last'.fault.subject = (IF last'.op = "getKerningMutator" THEN "kerning" ELSE "info")
        /\ last'.op # "getVariationModel" => MutatorKey(last') \notin DOMAIN memoizeCache) =>
            /\ last'.raised = ""
            /\ last'.value = None]_vars

\* some declared discrete axis has no value in the location, or one outside its values
IllegalDiscrete(self, location) ==
    \E a \in SeqRange(getOrderedDiscreteAxes(self)) :
        \/ ~DictHas(location, a.name)
        \/ DictGet(location, a.name) \notin SeqRange(a.values)

\* C9: makeOneGlyph returns null, without raising, for every location whose
\* discrete part is illegal: a declared discrete axis with a value outside its
\* legal set or with no value at all.
C9_IllegalDiscreteLocationGivesNull ==
    (/\ last.op = "makeOneGlyph"
     /\ IllegalDiscrete(ops[last.owner], The(last.loc))) =>
        /\ last.raised = ""
        /\ last.value = None

\* the key under which makeFontProportions asks for the info mutator
InfoMutatorKey(owner, D) ==
    MemoKey("getInfoMutator", owner, <<>>, << <<PyStr("discreteLocation"), OptLocObj(D)>> >>)

\* C10: makeFontProportions returns normally: the defaults 1000, 750, -250, 500
\* when there is no info mutator for the discrete part of the location, and the
\* proportions of the info mutator's instance otherwise.
C10_FontProportionsReturned ==
    (/\ last.op = "makeFontProportions"
     /\ \/ last.fault = NoFault
        \/ ops[last.owner].useVarlib /\ last.fault.exc \in ConstructionFailures) =>
        LET k == InfoMutatorKey(last.owner, splitLocation(ops[last.owner], The(last.loc))[2])
        IN  /\ last.raised = ""
            /\ ~IsNone(last.value)
            /\ (k \in DOMAIN memoizeCache /\ IsNone(memoizeCache[k])) =>
                   last.value = Some(DefaultProportions)

(***************************************************************************)
(* Claims on generateUFOs.                                                 *)
(***************************************************************************)
\* the number of fonts a run saved to the path
SavedTo(saved, path) == Cardinality({i \in DOMAIN saved : saved[i][1] = path})

\* C11: a run of generateUFOs that returns has saved exactly one font to the
\* path of every instance that has a path, whatever the number of discrete
\* locations of the design space, and has saved nothing else.
C11_OneFontPerInstance ==
    (last.op = "generateUFOs" /\ last.raised = "") =>
        LET instances == ops[last.owner].doc.instances
            saved == The(last.value)
        IN  /\ \A i \in DOMAIN instances :
                  ~IsNone(instances[i].path) => SavedTo(saved, The(instances[i].path)) = 1
            /\ \A j \in DOMAIN saved :
                  \E i \in DOMAIN instances : instances[i].path = Some(saved[j][1])

(***************************************************************************)
(* Claims on the loaded fonts.                                             *)
(***************************************************************************)
\* the given fonts that replace the loaded font have: same path, another identity
Replacing(have, fontObjects) ==
    {fontObjects[j] : j \in {i \in DOMAIN fontObjects :
                               /\ fontObjects[i].path = The(have).path
                               /\ fontObjects[i].ident # The(have).ident}}

\* C12: updateFonts(fontObjects) returns, in every state of the font mapping (a
\* null entry for a missing file included), with each loaded font that has the
\* path but not the identity of a given font replaced by it and every other
\* entry unchanged; the owner's cache entries are dropped iff a font was replaced.
C12_UpdateFontsReplaces ==
    [][last'.op = "updateFonts" =>
        LET o == last'.owner
            old == ops[o].fonts
            new == ops'[o].fonts
            fontObjects == The(last'.arg)
        IN  /\ last'.raised = ""
            /\ Len(new) = Len(old)
            /\ \A i \in DOMAIN old :
                  /\ new[i][1] = old[i][1]
                  /\ IF IsNone(old[i][2]) \/ Replacing(old[i][2], fontObjects) = {}
                     THEN new[i][2] = old[i][2]
                     ELSE /\ ~IsNone(new[i][2])
                          /\ The(new[i][2]) \in Replacing(old[i][2], fontObjects)
            /\ IF new # old THEN \A k \in DOMAIN memoizeCache' : k[2] # o
               ELSE memoizeCache' = memoizeCache]_vars

\* the sources whose entry in the font mapping is null
MissingNames(self) == {self.fonts[i][1] : i \in {j \in DOMAIN self.fonts : IsNone(self.fonts[j][2])}}
CollectionPasses ==
    {"collectSourcesForGlyph", "getInfoMutator", "getKerningMutator", "collectBaseGlyphs",
     "makeInstance"}

\* C18: once loadFonts has run and a source with a missing file has a null entry,
\* collectSourcesForGlyph, getInfoMutator, getKerningMutator, collectBaseGlyphs and
\* makeInstance all complete without raising, and no collected item comes from
\* that source.
C18_MissingSourceIsSkipped ==
    (/\ last.op \in CollectionPasses
     /\ ops[last.owner].fontsLoaded
     /\ MissingNames(ops[last.owner]) # {})
    => /\ last.raised = ""
       /\ last.op = "collectSourcesForGlyph" =>
             \A i \in DOMAIN last.value[1] :
                 last.value[1][i].sourceInfo.sourceName \notin MissingNames(ops[last.owner])

\* the glyph names of the fonts that are loaded
LoadedGlyphNames(self) ==
    UNION {DOMAIN The(self.fonts[i][2]).layers[DefaultLayerName] :
             i \in {j \in DOMAIN self.fonts : ~IsNone(self.fonts[j][2])}}

\* C26: after every call of loadFonts, whatever the calls before it and the
\* value of reload, glyphNames is the union of the glyph names of the loaded
\* (non-null) source fonts; a call with reload false on a loaded operator
\* changes neither the font mapping nor glyphNames.
C26_GlyphNamesOfLoadedFonts ==
    [][last'.op = "loadFonts" =>
        LET old == ops[last'.owner]
            new == ops'[last'.owner]
        IN  /\ last'.raised = ""
            /\ ~IsNone(new.glyphNames)
            /\ SeqRange(The(new.glyphNames)) = LoadedGlyphNames(new)
            /\ (old.fontsLoaded /\ ~The(last'.arg)) =>
                  new.fonts = old.fonts /\ new.glyphNames = old.glyphNames]_vars

(***************************************************************************)
(* Claims on the functions on locations.                                   *)
(***************************************************************************)
\* what isAnisotropic counts as a pair
IsPair(v) == v.t \in {"list", "tuple"}

\* C13: splitAnisotropic(L) returns (H, V) over the axis names of L; a pair (h, v)
\* gives h in H and v in V, a scalar goes to both, for every value isAnisotropic
\* counts as a pair: isAnisotropic(L) holds iff some value of L is a pair, and
\* it is false for H and for V.
C13_SplitAnisotropicSplitsPairs ==
    LET L == The(last.loc)
        H == last.value[1]
        V == last.value[2]
        self == ops[last.owner]
    IN  /\ last.op = "isAnisotropic" =>
              /\ last.raised = ""
              /\ last.value = (\E i \in DOMAIN L : IsPair(L[i][2]))
        /\ last.op = "splitAnisotropic" =>
              /\ last.raised = ""
              /\ DOMAIN H = DOMAIN L /\ DOMAIN V = DOMAIN L
              /\ \A i \in DOMAIN L :
                    /\ H[i][1] = L[i][1] /\ V[i][1] = L[i][1]
                    /\ IF IsPair(L[i][2])
                       THEN H[i][2] = L[i][2].items[1] /\ V[i][2] = L[i][2].items[2]
                       ELSE H[i][2] = L[i][2] /\ V[i][2] = L[i][2]
              /\ ~isAnisotropic(<<>>, self, last.owner, H).value
              /\ ~isAnisotropic(<<>>, self, last.owner, V).value

\* C15: splitLocation(L) is a lossless partition of L: the two results share no
\* axis name, the discrete one holds exactly the entries of L on declared
\* discrete axes, together they hold the entries of L, and the discrete result
\* is null exactly when L names no declared discrete axis.
C15_SplitLocationPartitions ==
    last.op = "splitLocation" =>
        LET L == The(last.loc)
            continuous == last.value[1]
            discrete == IF IsNone(last.value[2]) THEN <<>> ELSE The(last.value[2])
            declared == {a.name : a \in {b \in SeqRange(ops[last.owner].doc.axes) : b.discrete}}
        IN  /\ last.raised = ""
            /\ DictKeys(continuous) \cap DictKeys(discrete) = {}
            /\ SeqRange(discrete) = {p \in SeqRange(L) : p[1] \in declared}
            /\ SeqRange(continuous) \cup SeqRange(discrete) = SeqRange(L)
            /\ Len(continuous) + Len(discrete) = Len(L)
            /\ IsNone(last.value[2]) <=> DictKeys(L) \cap declared = {}

\* a location with a discrete and a continuous entry has been split
C15_Witness ==
    /\ last.op = "splitLocation"
    /\ last.raised = ""
    /\ last.value[1] # <<>>
    /\ ~IsNone(last.value[2])

(***************************************************************************)
(* Claims on anisotropic locations.                                        *)
(***************************************************************************)
\* obj has the horizontal component of hObj and the vertical component of vObj
Components(obj, hObj, vObj) == obj.h = hObj.h /\ obj.v = vObj.v

\* what C14 asks of an object made by mutator m at the continuous location loc
MergedAt(obj, m, loc) ==
    LET H == splitAnisotropicBody(loc)[1]
        V == splitAnisotropicBody(loc)[2]
    IN  IF \E i \in DOMAIN loc : IsPair(loc[i][2])
        THEN Components(obj, MathInstance(m, H), MathInstance(m, V))
        ELSE /\ Components(obj, MathInstance(m, loc), MathInstance(m, loc))
             /\ Components(Merge(MathInstance(m, H), MathInstance(m, V)), obj, obj)

\* C14: in makeInstance and makeOneGlyph the object made at an anisotropic
\* location is the merge (1,0)*H + (0,1)*V: its horizontal component is that of
\* the interpolation at the horizontal sub-location, its vertical component that
\* of the interpolation at the vertical sub-location; at an isotropic location
\* the merge of the two results of splitAnisotropic is the direct interpolation.
C14_AnisotropicMerge ==
    LET o == last.owner
        self == ops[o]
        split == splitLocation(self, The(last.loc))
        glyphMutator(g) ==
            The(getGlyphMutator(<<>>, self, o, g,
                                IF last.op = "makeOneGlyph" THEN Some(TRUE) ELSE None,
                                split[2], NoFault).value[1])
        infoMutator == The(getInfoMutator(<<>>, self, o, split[2], NoFault).value)
        font == The(last.value)
    IN  /\ (last.op = "makeOneGlyph" /\ last.raised = "" /\ ~IsNone(last.value)) =>
              MergedAt(The(last.value), glyphMutator(last.glyph), split[1])
        /\ (last.op = "makeInstance" /\ last.raised = "") =>
              /\ ~IsNone(font.info) => MergedAt(The(font.info), infoMutator, split[1])
              /\ \A i \in DOMAIN font.glyphs :
                    ~IsNone(font.glyphs[i][2].value) =>
                        MergedAt(The(font.glyphs[i][2].value),
                                 glyphMutator(font.glyphs[i][1]), split[1])

\* a glyph and a font with info and a glyph have been made at a tuple pair
C14_Witness ==
    /\ last.raised = ""
    /\ last.loc = Some(LocAnisotropic)
    /\ \/ last.op = "makeOneGlyph" /\ ~IsNone(last.value)
       \/ /\ last.op = "makeInstance"
          /\ ~IsNone(The(last.value).info)
          /\ \E i \in DOMAIN The(last.value).glyphs :
                ~IsNone(The(last.value).glyphs[i][2].value)

(***************************************************************************)
(* Claims on the sources collectSourcesForGlyph takes.                     *)
(***************************************************************************)
\* the layer the source descriptor sd names in its font f: its glyphs, or {}
LayerGlyphs(f, sd) ==
    IF IsNone(sd.layerName) THEN f.layers[DefaultLayerName]
    ELSE IF The(sd.layerName) \in DOMAIN f.layers THEN f.layers[The(sd.layerName)]
    ELSE <<>>

\* C16: in collectSourcesForGlyph a source that names an alternate layer is
\* taken for glyph G exactly when that layer exists and holds G, whether or not
\* G is in the default layer; a source that names no layer is taken exactly when
\* G is in the default layer. (Checked where no glyph G is empty, so that the
\* check of the empties drops nothing.)
C16_LayerDecidesEligibility ==
    (last.op = "collectSourcesForGlyph" /\ last.raised = "") =>
        LET self == ops[last.owner]
            G == last.glyph
            sources == self.doc.sources
            font(sd) == The(fontsGet(self, sd.name))
            taken == {last.value[1][i].sourceInfo.sourceName : i \in DOMAIN last.value[1]}
            noEmpty == \A i \in DOMAIN sources :
                          G \in DOMAIN LayerGlyphs(font(sources[i]), sources[i])
                             => ~LayerGlyphs(font(sources[i]), sources[i])[G].empty
        IN  noEmpty =>
              \A i \in DOMAIN sources :
                 sources[i].name \in taken
                    <=> G \in DOMAIN LayerGlyphs(font(sources[i]), sources[i])

\* C17: with muted axes M, collectSourcesForGlyph returns no item from a source
\* whose location is off the default on an axis of M, and neither the location
\* an item is interpolated at nor the location in its source metadata names an
\* axis of M.
C17_MutedAxesLeaveNoTrace ==
    (/\ last.op = "collectSourcesForGlyph"
     /\ last.raised = ""
     /\ ~IsNone(ops[last.owner].mutedAxisNames)) =>
        LET self == ops[last.owner]
            M == SeqRange(The(self.mutedAxisNames))
            items == last.value[1]
            default(n) == (CHOOSE a \in SeqRange(self.doc.axes) : a.name = n).default
            off(sd) == \E n \in M : DictHas(sd.location, n) /\ DictGet(sd.location, n) # default(n)
        IN  \A i \in DOMAIN items :
               /\ \A j \in DOMAIN self.doc.sources :
                     self.doc.sources[j].name = items[i].sourceInfo.sourceName
                        => ~off(self.doc.sources[j])
               /\ DictKeys(items[i].location) \cap M = {}
               /\ DictKeys(items[i].sourceInfo.location) \cap M = {}

(***************************************************************************)
(* Claims on the cache keys.                                               *)
(***************************************************************************)
\* the key memoize makes for op(location) on owner o
LocationKey(op, o, location) == MemoKey(op, o, <<LocObj(location)>>, <<>>)

\* C19: a call of a memoized operation whose arguments are structurally equal
\* to those of an earlier call on the same owner (equal mappings with their
\* entries in another order included) has the key of that call and returns the
\* cached result: the cache gets no new entry.
C19_EqualArgumentsHitTheCache ==
    [][(/\ last'.op \in {"isAnisotropic", "splitAnisotropic"}
        /\ \E earlier \in KeyLocations :
              /\ DictEq(earlier, The(last'.loc))
              /\ LocationKey(last'.op, last'.owner, earlier) \in DOMAIN memoizeCache)
       => /\ LocationKey(last'.op, last'.owner, The(last'.loc)) \in DOMAIN memoizeCache
          /\ memoizeCache' = memoizeCache]_vars

(***************************************************************************)
(* Claims on makeOneGlyph.                                                 *)
(***************************************************************************)
\* C20: makeOneGlyph returns null, and does not raise, when the interpolation
\* fails with IndexError (a data-alignment error), with debug on and with
\* debug off.
C20_AlignmentErrorGivesNull ==
    (/\ last.op = "makeOneGlyph"
     /\ last.fault = Fault("instance", last.glyph, "IndexError")
     /\ LET split == splitLocation(ops[last.owner], The(last.loc))
            check == checkDiscreteAxisValues(ops[last.owner], split[2])
        IN  check.raised = "" /\ check.value)
    => /\ last.raised = ""
       /\ IsNone(last.value)

\* C22: makeOneGlyph leaves useVarlib as it was before the call on every return
\* path: the normal return, the null return for an illegal discrete location,
\* the null return without a glyph mutator and the null return after a failed
\* interpolation.
C22_UseVarlibRestored ==
    [][(last'.op = "makeOneGlyph" /\ last'.raised = "")
       => ops'[last'.owner].useVarlib = ops[last'.owner].useVarlib]_vars

(***************************************************************************)
(* Claims on the output font of makeInstance.                              *)
(***************************************************************************)
\* C25: a glyph makeInstance skips, for want of a mutator or because its
\* interpolation failed, is absent from the font it returns: the font has a
\* glyph slot only for selected glyphs whose interpolated result was written.
C25_SkippedGlyphIsAbsent ==
    (last.op = "makeInstance" /\ last.raised = "" /\ ~IsNone(last.value)) =>
        LET glyphs == The(last.value).glyphs
            selected == IF ~IsNone(The(last.arg).glyphNames) /\ The(The(last.arg).glyphNames) # <<>>
                        THEN SeqRange(The(The(last.arg).glyphNames))
                        ELSE SeqRange(The(ops[last.owner].glyphNames))
        IN  \A i \in DOMAIN glyphs :
               /\ glyphs[i][1] \in selected
               /\ ~IsNone(glyphs[i][2].value)

\* C24: cache keys are injective on arguments: two calls of a memoized
\* operation on one owner with structurally different arguments (a nested list
\* and the flat list of its leaves, say) never have the same key, so a memoized
\* call never returns a result computed for other arguments.
C24_KeysAreInjective ==
    (last.op \in {"isAnisotropic", "splitAnisotropic"} /\ last.raised = "") =>
        LET L == The(last.loc)
        IN  /\ \A other \in KeyLocations :
                  ~DictEq(other, L) =>
                      LocationKey(last.op, last.owner, other)
                          # LocationKey(last.op, last.owner, L)
            /\ last.op = "splitAnisotropic" => last.value = splitAnisotropicBody(L)
            /\ last.op = "isAnisotropic" => last.value = (\E i \in DOMAIN L : IsPair(L[i][2]))

(***************************************************************************)
(* Claims on calls that meet earlier results in the cache.                 *)
(***************************************************************************)
\* the glyph a cache key of a glyph operation is about
KeyGlyph(k) == k[3][1][1].s
\* the key was made with decomposeComponents=True
KeyDecomposes(k) ==
    \E i \in DOMAIN k[4] :
        /\ k[4][i] = PyStr("decomposeComponents")
        /\ i + 1 \in DOMAIN k[4]
        /\ k[4][i + 1] = PyTuple(<<PyBool(TRUE)>>)
\* glyph g has glyph G as a component in a loaded source font
BuiltFrom(self, g, G) ==
    \E i \in DOMAIN self.fonts :
        /\ ~IsNone(self.fonts[i][2])
        /\ InFont(g, The(self.fonts[i][2]))
        /\ G \in SeqRange(The(self.fonts[i][2]).layers[DefaultLayerName][g].components)

\* C21: after glyphChanged(G) on an owner the cache holds no result of that
\* owner derived from the former content of G: no makeOneGlyph,
\* getGlyphMutator or collectSourcesForGlyph result of G (a makeOneGlyph with
\* the arguments of a call before the edit is computed again), and none of a
\* glyph built with decomposeComponents from G as a component.
C21_GlyphChangedDropsDerivedResults ==
    last.op = "glyphChanged" =>
        \A k \in DOMAIN memoizeCache :
            (/\ k[2] = last.owner
             /\ k[1] \in {"makeOneGlyph", "getGlyphMutator", "collectSourcesForGlyph"})
            => /\ KeyGlyph(k) # last.glyph
               /\ ~(KeyDecomposes(k) /\ BuiltFrom(ops[last.owner], KeyGlyph(k), last.glyph))

\* C23: the glyph made by makeOneGlyph(G, L, useVarlib=b) comes from a mutator
\* built by engine b, also when a mutator of G built by the other engine is in
\* the cache from an earlier call.
C23_MutatorOfSelectedEngine ==
    (last.op = "makeOneGlyph" /\ last.raised = "" /\ ~IsNone(last.value)) =>
        The(last.value).engine = IF The(last.arg) THEN "varlib" ELSE "mutatorMath"

====
